---- MODULE Spec2Model ----
(***************************************************************************)
(* Kernel fallback execution engine (compat mode) of                       *)
(* tensorflow/core/runtime_fallback/kernel/kernel_fallback_execute_compat.cc*)
(*                                                                         *)
(* Worker threads dispatch ops through the two entry points                *)
(* (KernelFallbackExecuteCompatCoreRuntimeDispatch and the executeop /     *)
(* executeop.seq BEF kernels), reusing a thread-local OpKernelRunState.    *)
(* Asynchronous kernels complete through done_callback and a publish task  *)
(* enqueued onto the TFRT work queue.                                      *)
(***************************************************************************)
EXTENDS Integers, Sequences, FiniteSets, TLC

\* ------------------------------------------------------------------------
\* Bounds of the model
\* ------------------------------------------------------------------------
MaxArgs == 2
MaxInv == 2
MaxLookups == 2

Threads == {"t1", "t2"}
NoRequestState == "no_request_state"
OpKeys == {1, 2}
DTypes == {"DT_INT32", "DT_FLOAT"}
KernelErrorCodes == {"ABORTED"}
HostCpu == "/job:localhost/replica:0/task:0/device:CPU:0"
Location == "loc0"

\* ------------------------------------------------------------------------
\* Strings are sequences of tokens; StrCat is concatenation.
\* ------------------------------------------------------------------------
RECURSIVE StrCat(_)
StrCat(parts) ==
  IF parts = <<>> THEN <<>> ELSE Head(parts) \o StrCat(Tail(parts))

StripTfPrefix(op_name) ==
  IF Len(op_name) > 0 /\ Head(op_name) = "tf." THEN Tail(op_name) ELSE op_name

BatchFunctionFallback == <<"_BatchFunctionFallback">>

\* ------------------------------------------------------------------------
\* Status and errors
\* ------------------------------------------------------------------------
OkStatus == [code |-> "OK", msg |-> <<>>]
ErrStatus(c, m) == [code |-> c, msg |-> m]
StatusOk(s) == s.code = "OK"

NotFound(m) == ErrStatus("NOT_FOUND", m)
Internal(m) == ErrStatus("INTERNAL", m)
InvalidArgument(m) == ErrStatus("INVALID_ARGUMENT", m)

RequestStateNotFoundMsg ==
  <<"KernelFallbackCompatRequestState not found in RequestContext.">>

ConvertTfErrorCodeToTfrtErrorCode(status) ==
  CASE status.code = "NOT_FOUND" -> "kNotFound"
    [] status.code = "INTERNAL" -> "kInternal"
    [] status.code = "INVALID_ARGUMENT" -> "kInvalidArgument"
    [] status.code = "ABORTED" -> "kAborted"
    [] status.code = "CANCELLED" -> "kCancelled"
    [] OTHER -> "kUnknown"

NoError == [code |-> "none", msg |-> <<>>]
NoTensor == [role |-> "none", owner |-> 0, idx |-> 0, dtype |-> "none"]

\* The error value of the diagnostic that both the synchronous emitter and
\* the asynchronous completion callback build.
KernelErrorValue(name, status) ==
  [code |-> ConvertTfErrorCodeToTfrtErrorCode(status),
   msg |-> StrCat(<<(<<"error running kernel fallback kernel ">>), name,
                    (<<": ">>), status.msg>>)]

\* ------------------------------------------------------------------------
\* AsyncValues.  A future is unavailable, or available as a value or error.
\* A slot of the caller (a result or the op chain) is null, or refers to an
\* AsyncValue created inline by the handler, or to a future owned by the
\* AsyncState of invocation `id` (idx 0 is the chain, idx i the i-th result).
\* ------------------------------------------------------------------------
Unavailable == [state |-> "unavailable", value |-> NoTensor, error |-> NoError]
ValueFuture(v) == [state |-> "value", value |-> v, error |-> NoError]
ErrorFuture(e) == [state |-> "error", value |-> NoTensor, error |-> e]
ChainValue == [role |-> "chain", owner |-> 0, idx |-> 0, dtype |-> "none"]
ReadyChain == ValueFuture(ChainValue)

NullSlot == [av |-> "null", fut |-> Unavailable, id |-> 0, idx |-> 0]
InputSlot(f) == [av |-> "input", fut |-> f, id |-> 0, idx |-> 0]
InlineSlot(f) == [av |-> "inline", fut |-> f, id |-> 0, idx |-> 0]
SharedSlot(id, i) == [av |-> "shared", fut |-> Unavailable, id |-> id, idx |-> i]

\* ------------------------------------------------------------------------
\* Kernels known to the legacy registry and the runners built for them.
\* ------------------------------------------------------------------------
NoKernel ==
  [name |-> <<>>, input_types |-> <<>>, num_outputs |-> 0, is_async |-> FALSE]

KernelNames == {<<"Add">>, <<"CollectiveGather">>, BatchFunctionFallback}

KernelOf(name) ==
  CASE name = <<"Add">> ->
         [name |-> name, input_types |-> <<"DT_INT32", "DT_INT32">>,
          num_outputs |-> 1, is_async |-> FALSE]
    [] name = <<"CollectiveGather">> ->
         [name |-> name, input_types |-> <<"DT_FLOAT">>,
          num_outputs |-> 1, is_async |-> TRUE]
    [] name = BatchFunctionFallback ->
         [name |-> name, input_types |-> <<"DT_INT32", "DT_FLOAT">>,
          num_outputs |-> 2, is_async |-> TRUE]
    [] OTHER -> NoKernel

NoRunner == [op_kernel |-> NoKernel, device |-> "none"]

\* OpKernelRunner::Create: the attribute builder fills the attribute map and
\* the kernel is constructed; either may fail.
BuildOutcomes == {"ok", "attr_builder_error", "kernel_construction_error"}

OpKernelRunnerCreate(op_name, device_name, num_args, build) ==
  IF build = "ok" /\ op_name \in KernelNames
    THEN [status |-> OkStatus,
          runner |-> [op_kernel |-> KernelOf(op_name), device |-> device_name]]
    ELSE [status |-> InvalidArgument(<<build, " for ">> \o op_name),
          runner |-> NoRunner]

\* ------------------------------------------------------------------------
\* Per-request compatibility state (KernelFallbackCompatRequestState).
\* ------------------------------------------------------------------------
RequestState(r) ==
  [custom_device |-> IF r = "r2" THEN "custom_device_r2" ELSE "null",
   step_container |-> r, runner |-> r, collective_executor |-> r,
   rendezvous |-> r, session_metadata |-> r, cancellation_manager |-> r]

\* ------------------------------------------------------------------------
\* Tensors.  A tensor is identified by the invocation that owns it and its
\* position; arguments carry a data type, kernel outputs are tagged "out".
\* ------------------------------------------------------------------------
ArgTensor(sn, i, dtype) ==
  [role |-> "arg", owner |-> sn, idx |-> i, dtype |-> dtype]
OutTensor(sn, i) ==
  [role |-> "out", owner |-> sn, idx |-> i, dtype |-> "DT_INT32"]
DanglingTensor == [role |-> "dangling", owner |-> 0, idx |-> 0, dtype |-> "none"]

\* tfrt::Tensor arguments of the core-runtime entry point: a host tensor
\* converts to a tensorflow::Tensor, an opaque one does not.
TfrtTensorShapes ==
  {<<d, "dense_host">> : d \in DTypes} \cup {<<"DT_INT32", "opaque">>}
DispatchArgLists(sn) ==
  UNION {
    { [i \in 1..n |-> [tensor |-> ArgTensor(sn, i, c[i][1]),
                       kind |-> c[i][2]]] :
        c \in [1..n -> TfrtTensorShapes] }
    : n \in 0..MaxArgs }

\* FallbackTensor arguments of the executeop kernels, with the immutability
\* flag of the tensor and the uniqueness of the AsyncValue reference.  The
\* handler never reads the data type of an argument, so each combination of
\* the two flags is paired with one data type.
FallbackTensorShapes ==
  {<<"DT_INT32", FALSE, FALSE>>, <<"DT_FLOAT", FALSE, TRUE>>,
   <<"DT_INT32", TRUE, FALSE>>, <<"DT_FLOAT", TRUE, TRUE>>}
ExecuteArgLists(sn) ==
  UNION {
    { [i \in 1..n |-> [tensor |-> ArgTensor(sn, i, c[i][1]),
                       is_immutable |-> c[i][2], is_unique |-> c[i][3]]] :
        c \in [1..n -> FallbackTensorShapes] }
    : n \in 0..MaxArgs }

TFRTTensorToTFTensor(argument) ==
  IF argument.kind = "dense_host"
    THEN [ok |-> TRUE, tensor |-> argument.tensor]
    ELSE [ok |-> FALSE, tensor |-> NoTensor]

\* A conversion that hands on the tensors it could not convert.
ConvertInputTensors_IgnoreFailure(arguments) ==
  [ok |-> TRUE,
   tensors |-> [i \in 1..Len(arguments) |-> arguments[i].tensor],
   error |-> <<>>]

ConvertInputTensors(arguments) ==
  IF \E i \in 1..Len(arguments) : ~TFRTTensorToTFTensor(arguments[i]).ok
    THEN [ok |-> FALSE, tensors |-> <<>>,
          error |-> <<"cannot convert tensor">>]
    ELSE [ok |-> TRUE,
          tensors |-> [i \in 1..Len(arguments) |->
                         TFRTTensorToTFTensor(arguments[i]).tensor],
          error |-> <<>>]

FirstMismatch(input_tf_tensors, input_types) ==
  CHOOSE i \in 1..Len(input_tf_tensors) :
    /\ input_tf_tensors[i].dtype # input_types[i]
    /\ \A j \in 1..(i - 1) : input_tf_tensors[j].dtype = input_types[j]

\* A validation that compares the counts only.
ValidateInputTypes_CountOnly(op_name, input_tf_tensors, input_types) ==
  IF Len(input_types) # Len(input_tf_tensors)
    THEN InvalidArgument(<<"expected ", ToString(Len(input_types)),
                           " inputs, got ", ToString(Len(input_tf_tensors))>>)
    ELSE OkStatus

ValidateInputTypes(op_name, input_tf_tensors, input_types) ==
  LET n_inputs == Len(input_tf_tensors) IN
  IF Len(input_types) # n_inputs
    THEN InvalidArgument(<<"expected ", ToString(Len(input_types)),
                           " inputs, got ", ToString(n_inputs)>>)
    ELSE IF \E i \in 1..n_inputs : input_tf_tensors[i].dtype # input_types[i]
      THEN LET i == FirstMismatch(input_tf_tensors, input_types) IN
           InvalidArgument(
             StrCat(<<(<<"cannot compute ">>), op_name,
                      (<<" as input #", ToString(i - 1), "(zero-based)",
                         " was expected to be a ", input_types[i],
                         " tensor but is a ", input_tf_tensors[i].dtype,
                         " tensor">>)>>))
      ELSE OkStatus

\* ------------------------------------------------------------------------
\* Error translation: one error value in every result and in the op chain.
\* ------------------------------------------------------------------------
\* An emitter that sets the results and leaves the op chain as it was.
KernelFallbackEmitError_ResultsOnly(op_name, has_chain, op_chain, results, status) ==
  LET error == InlineSlot(ErrorFuture(KernelErrorValue(op_name, status))) IN
  [results |-> [i \in 1..Len(results) |-> error], op_chain |-> op_chain]

KernelFallbackEmitError(op_name, has_chain, op_chain, results, status) ==
  LET error == InlineSlot(ErrorFuture(KernelErrorValue(op_name, status))) IN
  [results |-> [i \in 1..Len(results) |-> error],
   op_chain |-> IF has_chain THEN error ELSE op_chain]

\* ------------------------------------------------------------------------
\* OpKernelRunState: the tensor copies, the TensorValue handles and the
\* OpKernelContext::Params.  A handle is a pointer: slot idx of a region of
\* tensors (a thread's scratch input_tf_tensors, the input_tf_tensors of the
\* AsyncState of an invocation, or the argument tensors of an invocation).
\* ------------------------------------------------------------------------
NullHandle == [at |-> "null", idx |-> 0]
SlotHandle(at, i) == [at |-> at, idx |-> i]

ArgsName(sn) == "args" \o ToString(sn)
AsyncName(sn) == "inv" \o ToString(sn)

NullParams ==
  [inputs |-> "null", device |-> "null", op_kernel |-> NoKernel,
   resource_manager |-> "null", input_alloc_attrs |-> <<>>,
   output_attr_array |-> <<>>, function_library |-> "null",
   step_container |-> "null", runner |-> "null",
   collective_executor |-> "null", rendezvous |-> "null",
   session_metadata |-> "null", cancellation_manager |-> "null"]

EmptyRunState ==
  [input_tf_tensors |-> <<>>, input_tf_tensor_values |-> <<>>,
   params |-> NullParams]

\* mem maps the name of a run state to its input_tf_tensors.
Deref(h, mem) ==
  IF h.at \in DOMAIN mem /\ h.idx \in 1..Len(mem[h.at])
    THEN mem[h.at][h.idx] ELSE DanglingTensor

\* A resize that grows the vector but never shrinks it.
Resize_GrowOnly(values, n) ==
  [i \in 1..(IF n > Len(values) THEN n ELSE Len(values)) |->
     IF i <= Len(values) THEN values[i] ELSE NullHandle]

Resize(values, n) ==
  [i \in 1..n |-> IF i <= Len(values) THEN values[i] ELSE NullHandle]

\* A SetUpParams that assigns the device only when the request has a custom
\* device or the params have none yet.
SetUpParams_KeepsDevice(run_state, self, runner, fallback_request_state) ==
  [run_state EXCEPT !.params =
     [inputs |-> self,
      device |-> IF fallback_request_state.custom_device # "null"
                   THEN fallback_request_state.custom_device
                   ELSE IF run_state.params.device = "null"
                     THEN runner.device
                     ELSE run_state.params.device,
      op_kernel |-> runner.op_kernel,
      resource_manager |-> runner.device,
      input_alloc_attrs |-> runner.op_kernel.name,
      output_attr_array |-> runner.op_kernel.name,
      function_library |-> runner.device,
      step_container |-> fallback_request_state.step_container,
      runner |-> fallback_request_state.runner,
      collective_executor |-> fallback_request_state.collective_executor,
      rendezvous |-> fallback_request_state.rendezvous,
      session_metadata |-> fallback_request_state.session_metadata,
      cancellation_manager |-> fallback_request_state.cancellation_manager]]

SetUpParams(run_state, self, runner, fallback_request_state) ==
  [run_state EXCEPT !.params =
     [inputs |-> self,
      device |-> IF fallback_request_state.custom_device # "null"
                   THEN fallback_request_state.custom_device
                   ELSE runner.device,
      op_kernel |-> runner.op_kernel,
      resource_manager |-> runner.device,
      input_alloc_attrs |-> runner.op_kernel.name,
      output_attr_array |-> runner.op_kernel.name,
      function_library |-> runner.device,
      step_container |-> fallback_request_state.step_container,
      runner |-> fallback_request_state.runner,
      collective_executor |-> fallback_request_state.collective_executor,
      rendezvous |-> fallback_request_state.rendezvous,
      session_metadata |-> fallback_request_state.session_metadata,
      cancellation_manager |-> fallback_request_state.cancellation_manager]]

\* A constructor that copies only the tensors the caller's run state owns,
\* not every tensor its handles refer to.
OpKernelRunStateCopy_OwnedOnly(self, tensor_values, p, mem) ==
  [input_tf_tensors |-> IF p.inputs \in DOMAIN mem THEN mem[p.inputs]
                                                   ELSE <<>>,
   input_tf_tensor_values |->
     [i \in 1..Len(tensor_values) |-> SlotHandle(self, i)],
   params |-> [p EXCEPT !.inputs = self]]

\* A constructor that copies the tensors but keeps the caller's handles and
\* params, which still point into the caller's run state.
OpKernelRunStateCopy_KeepPointers(self, tensor_values, p, mem) ==
  [input_tf_tensors |->
     [i \in 1..Len(tensor_values) |-> Deref(tensor_values[i], mem)],
   input_tf_tensor_values |-> tensor_values,
   params |-> p]

\* The copying constructor OpKernelRunState(tensor_values, p) used for the
\* AsyncState: every referenced tensor is copied and the handles and the
\* params are re-pointed at the copy.
OpKernelRunStateCopy(self, tensor_values, p, mem) ==
  [input_tf_tensors |->
     [i \in 1..Len(tensor_values) |-> Deref(tensor_values[i], mem)],
   input_tf_tensor_values |->
     [i \in 1..Len(tensor_values) |-> SlotHandle(self, i)],
   params |-> [p EXCEPT !.inputs = self]]

\* A scope exit that does not run the cleanup.
CleanUpInputs_Skipped(run_state) == run_state

\* gtl::MakeCleanup([&]() { run_state.input_tf_tensors.clear(); })
CleanUpInputs(run_state) == [run_state EXCEPT !.input_tf_tensors = <<>>]

\* What a kernel reads through its OpKernelContext: the handles that
\* params.inputs points at, dereferenced.
ContextInputs(run_state, self, mem) ==
  IF run_state.params.inputs = self
    THEN [i \in 1..Len(run_state.input_tf_tensor_values) |->
            Deref(run_state.input_tf_tensor_values[i], mem)]
    ELSE <<DanglingTensor>>

KernelOutputs(sn, n) == [i \in 1..n |-> OutTensor(sn, i)]
KernelOutcomes ==
  {OkStatus} \cup {ErrStatus(c, <<"kernel failed">>) : c \in KernelErrorCodes}

\* ------------------------------------------------------------------------
\* The AsyncState of an asynchronous invocation and the futures it owns.
\* ------------------------------------------------------------------------
NoAsync ==
  [pc |-> "none", run_state |-> EmptyRunState, num_outputs |-> 0,
   status |-> OkStatus, outputs |-> <<>>, chain |-> Unavailable,
   result_refs |-> <<>>, next |-> 0, log |-> <<>>, refs |-> {}]

\* A callback that publishes the values itself instead of enqueueing a task.
CallbackEnter_PublishInline(a, id, status) ==
  IF ~StatusOk(status)
    THEN [a EXCEPT !.pc = "set_error", !.status = status, !.next = 1,
                   !.log = @ \o <<"callback">>]
    ELSE [a EXCEPT !.pc = "done", !.status = status,
                   !.next = a.num_outputs + 1,
                   !.outputs = KernelOutputs(id, a.num_outputs),
                   !.result_refs =
                     [i \in 1..a.num_outputs |->
                        ValueFuture(KernelOutputs(id, a.num_outputs)[i])],
                   !.chain = ReadyChain,
                   !.log = @ \o <<"callback">> \o
                             [i \in 1..(a.num_outputs + 1) |->
                                "callback_write"]]

\* A callback that enqueues a task on the failure path as well.
CallbackEnter_EnqueueOnError(a, id, status) ==
  IF ~StatusOk(status)
    THEN [a EXCEPT !.pc = "set_error", !.status = status, !.next = 1,
                   !.log = @ \o <<"callback", "enqueue">>]
    ELSE [a EXCEPT !.pc = "enqueued", !.status = status, !.next = 1,
                   !.outputs = KernelOutputs(id, a.num_outputs),
                   !.log = @ \o <<"callback", "enqueue">>]

\* The kernel finishes with `status` and invokes done_callback.  On failure
\* the callback goes on to write the error itself; on success it enqueues
\* the publish task and returns.  refs are the closures that hold a
\* shared_ptr to the AsyncState: the callback's operator() is const, so the
\* task's capture copies the pointer and the callback keeps its own.
CallbackEnter(a, id, status) ==
  IF ~StatusOk(status)
    THEN [a EXCEPT !.pc = "set_error", !.status = status, !.next = 1,
                   !.log = @ \o <<"callback">>]
    ELSE [a EXCEPT !.pc = "enqueued", !.status = status, !.next = 1,
                   !.outputs = KernelOutputs(id, a.num_outputs),
                   !.log = @ \o <<"callback", "enqueue">>,
                   !.refs = @ \cup {"task"}]

\* A failure branch that does not return after its last SetError and falls
\* through to enqueueing the publish task.
SetErrorNext_FallThrough(a) ==
  LET diag == KernelErrorValue(a.run_state.params.op_kernel.name, a.status)
  IN IF a.next <= Len(a.result_refs)
       THEN [a EXCEPT !.result_refs[a.next] = ErrorFuture(diag),
                      !.next = a.next + 1,
                      !.log = @ \o <<"callback_write">>]
       ELSE [a EXCEPT !.chain = ErrorFuture(diag), !.pc = "enqueued",
                      !.next = 1,
                      !.outputs = [i \in 1..a.num_outputs |-> DanglingTensor],
                      !.log = @ \o <<"callback_write", "enqueue">>]

\* One SetError of the callback's failure branch: the results in order,
\* then the chain.
SetErrorNext(a) ==
  LET diag == KernelErrorValue(a.run_state.params.op_kernel.name, a.status)
  IN IF a.next <= Len(a.result_refs)
       THEN [a EXCEPT !.result_refs[a.next] = ErrorFuture(diag),
                      !.next = a.next + 1,
                      !.log = @ \o <<"callback_write">>]
       ELSE [a EXCEPT !.chain = ErrorFuture(diag), !.pc = "done",
                      !.log = @ \o <<"callback_write">>]

\* done_callback invoked by the kernel before RunAsync returns: it runs on
\* the dispatching thread, to its end.
RECURSIVE CallbackReturn(_)
CallbackReturn(a) ==
  IF a.pc = "set_error" THEN CallbackReturn(SetErrorNext(a)) ELSE a

\* The status RunAsync returns with when the kernel has not called done.
Pending == [code |-> "PENDING", msg |-> <<>>]

AsyncOutcomes == {Pending} \cup KernelOutcomes

\* A handler that gives the caller futures of its own, not the AsyncState's.
KernelFallbackExecuteCompatAsyncInternal_OwnFutures(sn, run_state, kernel_runner, has_chain, op_chain, results, completion, mem) ==
  LET self == AsyncName(sn)
      copy == OpKernelRunStateCopy(self, run_state.input_tf_tensor_values,
                                   run_state.params, mem)
      async_state ==
        [pc |-> "in_flight", run_state |-> copy,
         num_outputs |-> Len(results), status |-> OkStatus,
         outputs |-> <<>>, chain |-> Unavailable,
         result_refs |-> [i \in 1..Len(results) |-> Unavailable],
         next |-> 0, log |-> <<"install", "run_async">>,
         refs |-> {"callback"}]
  IN [op_chain |-> IF has_chain THEN InlineSlot(Unavailable) ELSE op_chain,
      results |-> [i \in 1..Len(results) |-> InlineSlot(Unavailable)],
      async_state |->
        IF completion = Pending
          THEN async_state
          ELSE CallbackReturn(CallbackEnter(async_state, sn, completion))]

\* KernelFallbackExecuteCompatAsyncInternal up to the return of RunAsync;
\* `completion` is Pending, or the status the kernel called done with
\* inside RunAsync.
KernelFallbackExecuteCompatAsyncInternal(sn, run_state, kernel_runner, has_chain, op_chain, results, completion, mem) ==
  LET self == AsyncName(sn)
      copy == OpKernelRunStateCopy(self, run_state.input_tf_tensor_values,
                                   run_state.params, mem)
      async_state ==
        [pc |-> "in_flight", run_state |-> copy,
         num_outputs |-> Len(results), status |-> OkStatus,
         outputs |-> <<>>, chain |-> Unavailable,
         result_refs |-> [i \in 1..Len(results) |-> Unavailable],
         next |-> 0, log |-> <<"install", "run_async">>,
         refs |-> {"callback"}]
  IN [op_chain |-> IF has_chain THEN SharedSlot(sn, 0) ELSE op_chain,
      results |-> [i \in 1..Len(results) |-> SharedSlot(sn, i)],
      async_state |->
        IF completion = Pending
          THEN async_state
          ELSE CallbackReturn(CallbackEnter(async_state, sn, completion))]

\* A handler that reports failures but never moves the outputs out.
KernelFallbackExecuteCompatSyncInternal_OutputsUnset(sn, kernel_runner, has_chain, op_chain, results, status) ==
  IF ~StatusOk(status)
    THEN KernelFallbackEmitError(kernel_runner.op_kernel.name, has_chain,
                                 op_chain, results, status)
    ELSE [results |-> results,
          op_chain |-> IF has_chain THEN InlineSlot(ReadyChain) ELSE op_chain]

\* A handler that leaves the op chain it was given in place on success.
KernelFallbackExecuteCompatSyncInternal_KeepsChain(sn, kernel_runner, has_chain, op_chain, results, status) ==
  IF ~StatusOk(status)
    THEN KernelFallbackEmitError(kernel_runner.op_kernel.name, has_chain,
                                 op_chain, results, status)
    ELSE [results |->
            [i \in 1..Len(results) |->
               InlineSlot(ValueFuture(KernelOutputs(sn, Len(results))[i]))],
          op_chain |-> op_chain]

\* KernelFallbackExecuteCompatSyncInternal after Run returned with `status`.
KernelFallbackExecuteCompatSyncInternal(sn, kernel_runner, has_chain, op_chain, results, status) ==
  IF ~StatusOk(status)
    THEN KernelFallbackEmitError(kernel_runner.op_kernel.name, has_chain,
                                 op_chain, results, status)
    ELSE [results |->
            [i \in 1..Len(results) |->
               InlineSlot(ValueFuture(KernelOutputs(sn, Len(results))[i]))],
          op_chain |-> IF has_chain THEN InlineSlot(ReadyChain) ELSE op_chain]

\* ------------------------------------------------------------------------
\* Runner cache (OpKernelRunnerCache) and runner table (OpKernelRunnerTable)
\* ------------------------------------------------------------------------
CacheKey(loc, op_name, device_name, num_args) ==
  <<loc, op_name, device_name, ToString(num_args)>>

\* A critical section that constructs without checking presence again.
GetOrCreateLocked_NoRecheck(cache, loc, op_name, device_name, num_args, build) ==
  LET key == CacheKey(loc, op_name, device_name, num_args)
      c == OpKernelRunnerCreate(op_name, device_name, num_args, build) IN
  IF StatusOk(c.status)
    THEN [cache |-> [k \in DOMAIN cache \cup {key} |->
                       IF k = key THEN c.runner ELSE cache[k]],
          status |-> OkStatus, runner |-> c.runner, constructed |-> TRUE]
    ELSE [cache |-> cache, status |-> c.status, runner |-> NoRunner,
          constructed |-> TRUE]

\* A critical section that stores the outcome of a failed construction.
GetOrCreateLocked_CacheFailure(cache, loc, op_name, device_name, num_args, build) ==
  LET key == CacheKey(loc, op_name, device_name, num_args) IN
  IF key \in DOMAIN cache
    THEN [cache |-> cache,
          status |-> IF cache[key] = NoRunner
                       THEN InvalidArgument(<<"cached failure">>)
                       ELSE OkStatus,
          runner |-> cache[key], constructed |-> FALSE]
    ELSE LET c == OpKernelRunnerCreate(op_name, device_name, num_args,
                                       build) IN
         [cache |-> (key :> c.runner) @@ cache, status |-> c.status,
          runner |-> c.runner, constructed |-> TRUE]

\* The critical section of GetOrCreate: presence is checked under the lock,
\* a missing runner is constructed, and only a constructed runner is stored.
GetOrCreateLocked(cache, loc, op_name, device_name, num_args, build) ==
  LET key == CacheKey(loc, op_name, device_name, num_args) IN
  IF key \in DOMAIN cache
    THEN [cache |-> cache, status |-> OkStatus, runner |-> cache[key],
          constructed |-> FALSE]
    ELSE LET c == OpKernelRunnerCreate(op_name, device_name, num_args,
                                       build) IN
         IF StatusOk(c.status)
           THEN [cache |-> (key :> c.runner) @@ cache, status |-> OkStatus,
                 runner |-> c.runner, constructed |-> TRUE]
           ELSE [cache |-> cache, status |-> c.status, runner |-> NoRunner,
                 constructed |-> TRUE]

\* An insert that replaces the runner of a key that is present.
TableInsert_Overwrite(table, op_key, runner) ==
  [ok |-> TRUE,
   table |-> [k \in DOMAIN table \cup {op_key} |->
                IF k = op_key THEN runner ELSE table[k]]]

\* OpKernelRunnerTable::Insert: false when the key already has a runner.
TableInsert(table, op_key, runner) ==
  IF op_key \in DOMAIN table
    THEN [ok |-> FALSE, table |-> table]
    ELSE [ok |-> TRUE, table |-> (op_key :> runner) @@ table]

\* OpKernelRunnerTable::Get
TableGet(table, op_key) ==
  IF op_key \in DOMAIN table THEN table[op_key] ELSE NoRunner

\* ------------------------------------------------------------------------
\* Resource contexts.  A resource context keeps named resources; a pointer to
\* a resource names its owner and its name in the owner.  The runner table a
\* caller passes to the eager set-up is owned by the caller.
\* ------------------------------------------------------------------------
Requests == {"r1", "r2"}
ResourceContexts == {"rc1", "rc2"}
kOpKernelRunnerTableResourceName == "OpKernelRunnerTableResourceName"
kFallbackResourceArray == "FallbackResourceArray"

NullPtr == [owner |-> "null", name |-> "null"]
ResourcePtr(owner, name) == [owner |-> owner, name |-> name]
CallerTable == ResourcePtr("caller", "runner_table")
EmptyResource == <<>>

\* A GetOrCreateResource that replaces the resource of the name with a new
\* one on every call.
GetOrCreateResource_Recreate(res, rc, name) ==
  [ptr |-> ResourcePtr(rc, name),
   resources |-> [q \in DOMAIN res \cup {ResourcePtr(rc, name)} |->
                    IF q = ResourcePtr(rc, name) THEN EmptyResource
                                                 ELSE res[q]]]

\* ResourceContext::GetOrCreateResource<T>(name): the resource of that name
\* in the context, default-constructed on the first call.
GetOrCreateResource(res, rc, name) ==
  [ptr |-> ResourcePtr(rc, name),
   resources |-> IF ResourcePtr(rc, name) \in DOMAIN res
                   THEN res
                   ELSE (ResourcePtr(rc, name) :> EmptyResource) @@ res]

\* A request context: the resource context of its builder and, once set up,
\* the KernelFallbackCompatRequestState with its two resource pointers.
NoRequestContext ==
  [built |-> FALSE, has_state |-> FALSE, resource_context |-> "null",
   runner_table |-> NullPtr, resource_array |-> NullPtr]

\* SetUpKernelFallbackCompatRequestContext(builder, device_manager, pflr, ..)
SetUpKernelFallbackCompatRequestContext(res, rc) ==
  LET t == GetOrCreateResource(res, rc, kOpKernelRunnerTableResourceName)
      a == GetOrCreateResource(t.resources, rc, kFallbackResourceArray)
  IN [resources |-> a.resources,
      context |-> [built |-> TRUE, has_state |-> TRUE,
                   resource_context |-> rc,
                   runner_table |-> t.ptr, resource_array |-> a.ptr]]

\* SetUpKernelFallbackCompatRequestContext(builder, runner_table,
\* eager_context, ..): the table is created in the resource context only
\* when the caller passes none.
SetUpKernelFallbackCompatRequestContextEager(res, rc, table) ==
  LET a == GetOrCreateResource(res, rc, kFallbackResourceArray)
      t == IF table = NullPtr
             THEN GetOrCreateResource(a.resources, rc,
                                      kOpKernelRunnerTableResourceName)
             ELSE [ptr |-> table, resources |-> a.resources]
  IN [resources |-> t.resources,
      context |-> [built |-> TRUE, has_state |-> TRUE,
                   resource_context |-> rc,
                   runner_table |-> t.ptr, resource_array |-> a.ptr]]

\* ------------------------------------------------------------------------
\* FallbackResourceArray
\* ------------------------------------------------------------------------
\* ImmutableTensor::Create(tensor), kept as a FallbackTensor.
ImmutableTensorCreate(tensor) == [tensor |-> tensor, is_immutable |-> TRUE]

\* A SetResource that keeps the value an index already has.
SetResource_KeepFirst(array, index, tensor) ==
  IF index \in DOMAIN array THEN array ELSE (index :> tensor) @@ array

\* FallbackResourceArray::SetResource: the index now holds the tensor.
SetResource(array, index, tensor) ==
  [k \in DOMAIN array \cup {index} |->
     IF k = index THEN tensor ELSE array[k]]

\* What reading an index that was never set may yield.
UnsetReads == {[tensor |-> NoTensor, is_immutable |-> FALSE],
               [tensor |-> DanglingTensor, is_immutable |-> FALSE]}

\* FallbackResourceArray::GetResource: the AsyncValue of the index; `unset`
\* is what the read of an index that was never set yields.
GetResource(array, index, unset) ==
  IF index \in DOMAIN array THEN ValueFuture(array[index])
                             ELSE ValueFuture(unset)

ResourceSlot(f) == [av |-> "resource", fut |-> f, id |-> 0, idx |-> 0]

\* tfrt::EmitErrorAsync(exec_ctx, message) and the error a kernel returning
\* llvm::Expected hands to its result.
StringErrorValue(m) == [code |-> "kUnknown", msg |-> m]

\* ------------------------------------------------------------------------
\* FallbackSetResource (tfrt_fallback_async.set_resource)
\* ------------------------------------------------------------------------
FallbackSetResource(res, ctx, arg, index) ==
  IF ~ctx.has_state
    THEN [resources |-> res,
          status |-> ErrStatus("STRING_ERROR", RequestStateNotFoundMsg),
          out_ch |-> InlineSlot(ErrorFuture(
                       StringErrorValue(RequestStateNotFoundMsg)))]
    ELSE [resources |->
            [res EXCEPT ![ctx.resource_array] =
               SetResource(@, index, ImmutableTensorCreate(arg.tensor))],
          status |-> OkStatus,
          out_ch |-> InlineSlot(ReadyChain)]

\* ------------------------------------------------------------------------
\* FallbackGetResource (tfrt_fallback_async.get_resource)
\* ------------------------------------------------------------------------
FallbackGetResource(res, ctx, in_ch, indices, unset) ==
  IF ~ctx.has_state
    THEN [status |-> ErrStatus("STRING_ERROR", RequestStateNotFoundMsg),
          out_ch |-> InlineSlot(ErrorFuture(
                       StringErrorValue(RequestStateNotFoundMsg))),
          results |-> [i \in 1..Len(indices) |-> NullSlot]]
    ELSE [status |-> OkStatus,
          out_ch |-> InputSlot(in_ch),
          results |-> [i \in 1..Len(indices) |->
                         ResourceSlot(GetResource(res[ctx.resource_array],
                                                  indices[i], unset))]]

\* ------------------------------------------------------------------------
\* State
\* ------------------------------------------------------------------------
VARIABLES
  scratch,       \* thread -> its thread_local OpKernelRunState
  runner_table,  \* op key -> runner (resource context)
  runner_cache,  \* cache key -> runner (resource context)
  async_ops,     \* invocation serial -> AsyncState of an asynchronous op
  serial,        \* number of op invocations dispatched so far
  last,          \* the handler invocation that returned most recently
  lookup,        \* thread -> its GetOrCreate call on the runner cache
  request_ctx,   \* request -> its request context and fallback state
  resources,     \* resource pointer -> the resource (array or table)
  kernels        \* the BEF kernels of the resource and createop ops

vars ==
  <<scratch, runner_table, runner_cache, async_ops, serial, last, lookup,
    request_ctx, resources, kernels>>

resource_vars == <<request_ctx, resources, kernels>>

engine_vars ==
  <<scratch, runner_table, runner_cache, async_ops, serial, lookup>>

\* The op that the graph assigns to each op key, and the runner table once
\* the graph's createop kernels have run.
GraphOp(op_key) ==
  IF op_key = 1 THEN <<"tf.", "Add">> ELSE <<"tf.", "CollectiveGather">>

GraphTable ==
  [k \in OpKeys |->
     OpKernelRunnerCreate(StripTfPrefix(GraphOp(k)), HostCpu,
                          Len(KernelOf(StripTfPrefix(GraphOp(k))).input_types),
                          "ok").runner]

NoInvocation ==
  [entry |-> "none", thread |-> "none", req |-> NoRequestState,
   op_name |-> <<>>, op_key |-> 0, has_chain |-> FALSE, args |-> <<>>,
   runner |-> NoRunner, constructed |-> FALSE, kernel_ran |-> FALSE,
   is_async |-> FALSE, kernel_inputs |-> <<>>, copies |-> <<>>,
   status |-> OkStatus, op_chain |-> NullSlot, results |-> <<>>,
   in_run |-> FALSE, nested |-> 0]

\* A GetOrCreate call: the key looked up, what it returned, whether it ran
\* the construction, and the calls on the same key it overlapped with.
NoLookup ==
  [pc |-> "idle", op_name |-> <<>>, num_args |-> 0, status |-> OkStatus,
   runner |-> NoRunner, constructed |-> FALSE, overlaps |-> {}, calls |-> 0]

Init ==
  /\ scratch = [t \in Threads |-> EmptyRunState]
  /\ runner_table = GraphTable
  /\ runner_cache = <<>>
  /\ async_ops = <<>>
  /\ serial = 0
  /\ last = NoInvocation
  /\ lookup = [t \in Threads |-> NoLookup]
  /\ request_ctx = [r \in Requests |-> NoRequestContext]
  /\ resources = (CallerTable :> EmptyResource)
  /\ kernels = <<>>

\* The input_tf_tensors of every run state, by name.
Memory(sc, ops) ==
  [x \in Threads |-> sc[x].input_tf_tensors] @@
  [x \in {AsyncName(id) : id \in DOMAIN ops} |->
     LET id == CHOOSE i \in DOMAIN ops : AsyncName(i) = x
     IN ops[id].run_state.input_tf_tensors]

\* ------------------------------------------------------------------------
\* Running the kernel once the run state is set up (the IsAsync branch
\* shared by both entry points).
\* ------------------------------------------------------------------------
RunKernel(sn, t, run_state, kernel_runner, has_chain, op_chain, results, status, mem) ==
  IF kernel_runner.op_kernel.is_async
    THEN LET a == KernelFallbackExecuteCompatAsyncInternal(
                    sn, run_state, kernel_runner, has_chain, op_chain,
                    results, status, mem)
         IN [op_chain |-> a.op_chain, results |-> a.results,
             async_state |-> a.async_state, status |-> OkStatus,
             kernel_inputs |->
               ContextInputs(a.async_state.run_state, AsyncName(sn),
                 (AsyncName(sn) :> a.async_state.run_state.input_tf_tensors)
                   @@ mem)]
    ELSE LET r == KernelFallbackExecuteCompatSyncInternal(
                    sn, kernel_runner, has_chain, op_chain, results, status)
         IN [op_chain |-> r.op_chain, results |-> r.results,
             async_state |-> NoAsync, status |-> status,
             kernel_inputs |-> ContextInputs(run_state, t, mem)]

AddAsync(ops, sn, async_state) ==
  IF async_state.pc = "none" THEN ops ELSE (sn :> async_state) @@ ops

\* The dtype-check exemption of the core-runtime entry point.
ValidationRejects(status, op_name) ==
  ~StatusOk(status) /\ op_name # BatchFunctionFallback

\* input_tf_tensor_values of the core-runtime entry point: one handle per
\* converted tensor, pointing at the scratch copy.
DispatchHandles(t, values, input_tf_tensors) ==
  LET resized == Resize(values, Len(input_tf_tensors)) IN
  [i \in 1..Len(resized) |->
     IF i <= Len(input_tf_tensors)
       THEN [resized[i] EXCEPT !.at = t, !.idx = i]
       ELSE resized[i]]

\* ------------------------------------------------------------------------
\* KernelFallbackExecuteCompatCoreRuntimeDispatch
\* ------------------------------------------------------------------------
CoreRuntimeDispatch(t, req, op_name, arguments, build, outcome) ==
  LET sn == serial + 1
      results0 == [i \in 1..KernelOf(op_name).num_outputs |-> NullSlot]
      op_chain0 == InlineSlot(ReadyChain)
      base == [NoInvocation EXCEPT !.entry = "dispatch", !.thread = t,
                 !.req = req, !.op_name = op_name, !.has_chain = TRUE,
                 !.args = arguments]
      Failed(inv, status) ==
        LET e == KernelFallbackEmitError(op_name, TRUE, op_chain0, results0,
                                         status)
        IN [inv EXCEPT !.status = status, !.op_chain = e.op_chain,
                       !.results = e.results]
  IN
  /\ last.entry = "none"
  /\ serial < MaxInv
  /\ serial' = sn
  /\ UNCHANGED <<runner_table, lookup>>
  /\ IF req = NoRequestState
       THEN /\ last' = Failed(base, NotFound(RequestStateNotFoundMsg))
            /\ UNCHANGED <<scratch, runner_cache, async_ops>>
       ELSE
         LET g == GetOrCreateLocked(runner_cache, Location, op_name, HostCpu,
                                    Len(arguments), build)
             looked == [base EXCEPT !.runner = g.runner,
                                    !.constructed = g.constructed]
         IN
         /\ runner_cache' = g.cache
         /\ IF ~StatusOk(g.status)
              THEN /\ last' = Failed(looked, g.status)
                   /\ UNCHANGED <<scratch, async_ops>>
              ELSE
                LET conv == ConvertInputTensors(arguments) IN
                IF ~conv.ok
                  THEN /\ last' = Failed(looked, Internal(conv.error))
                       /\ UNCHANGED <<scratch, async_ops>>
                  ELSE
                    LET rs1 == [scratch[t] EXCEPT
                                  !.input_tf_tensors = conv.tensors]
                        vstatus ==
                          ValidateInputTypes(op_name, rs1.input_tf_tensors,
                                             g.runner.op_kernel.input_types)
                    IN
                    IF ValidationRejects(vstatus, op_name)
                      THEN /\ last' = Failed(looked, vstatus)
                           /\ scratch' =
                                [scratch EXCEPT ![t] = CleanUpInputs(rs1)]
                           /\ UNCHANGED async_ops
                      ELSE
                        LET rs2 == [rs1 EXCEPT !.input_tf_tensor_values =
                                      DispatchHandles(t, @,
                                                      rs1.input_tf_tensors)]
                            rs3 == SetUpParams(rs2, t, g.runner,
                                               RequestState(req))
                            mem == (t :> rs3.input_tf_tensors) @@
                                     Memory(scratch, async_ops)
                            run == RunKernel(sn, t, rs3, g.runner, TRUE,
                                             op_chain0, results0, outcome,
                                             mem)
                        IN
                        /\ scratch' =
                             [scratch EXCEPT ![t] = CleanUpInputs(rs3)]
                        /\ async_ops' =
                             AddAsync(async_ops, sn, run.async_state)
                        /\ last' =
                             [looked EXCEPT
                                !.kernel_ran = TRUE,
                                !.is_async = g.runner.op_kernel.is_async,
                                !.kernel_inputs = run.kernel_inputs,
                                !.copies = rs3.input_tf_tensors,
                                !.status = run.status,
                                !.op_chain = run.op_chain,
                                !.results = run.results]

\* ------------------------------------------------------------------------
\* KernelFallbackExecuteOp (tfrt_fallback_async.executeop and .executeop.seq)
\* ------------------------------------------------------------------------
\* A loop that copies every argument that is not immutable, shared or not.
ExecuteCopies_AllMutable(input_tf_tensors, args) ==
  LET keep == SelectSeq(args, LAMBDA a : ~a.is_immutable)
  IN input_tf_tensors \o [j \in 1..Len(keep) |-> keep[j].tensor]

\* The tensor copies kept for arguments that are mutable and shared.
ExecuteCopies(input_tf_tensors, args) ==
  LET keep == SelectSeq(args,
                        LAMBDA a : ~a.is_immutable /\ ~a.is_unique)
  IN input_tf_tensors \o [j \in 1..Len(keep) |-> keep[j].tensor]

\* One handle per argument, pointing at the argument's own tensor.
ExecuteHandles(sn, values, args) ==
  LET resized == Resize(values, Len(args)) IN
  [i \in 1..Len(resized) |->
     IF i <= Len(args)
       THEN [resized[i] EXCEPT !.at = ArgsName(sn), !.idx = i]
       ELSE resized[i]]

\* The frame of an executeop invocation: the runner of the op key and the
\* op name the graph recorded for it.
ExecuteOpFrame(t, req, op_key, seq, args) ==
  LET table_runner == TableGet(runner_table, op_key)
      frame_op_name == <<"tf.">> \o table_runner.op_kernel.name
  IN [kernel_runner |-> table_runner,
      op_name |-> frame_op_name,
      results |-> [i \in 1..table_runner.op_kernel.num_outputs |-> NullSlot],
      op_chain |-> IF seq THEN InputSlot(ReadyChain) ELSE NullSlot,
      base |-> [NoInvocation EXCEPT
                  !.entry = "executeop", !.thread = t, !.req = req,
                  !.op_name = frame_op_name, !.op_key = op_key,
                  !.has_chain = seq, !.args = args]]

\* The handler returns early with `status` in every result and the chain.
ExecuteOpEmitError(f, status) ==
  LET e == KernelFallbackEmitError(f.op_name, f.base.has_chain, f.op_chain,
                                   f.results, status)
  IN /\ last' = [f.base EXCEPT !.status = status, !.op_chain = e.op_chain,
                               !.results = e.results]
     /\ UNCHANGED <<scratch, async_ops>>

\* The thread's run state once the handler has prepared the inputs and set
\* up the params, before the kernel is run.
ExecuteOpSetUp(run_state, sn, t, req, kernel_runner, args) ==
  SetUpParams([run_state EXCEPT
                 !.input_tf_tensors = ExecuteCopies(@, args),
                 !.input_tf_tensor_values = ExecuteHandles(sn, @, args)],
              t, kernel_runner, RequestState(req))

\* The handler from the scratch state on: inputs, params, kernel, cleanup.
ExecuteOpRun(f, sn, t, req, seq, args, outcome) ==
  LET kernel_runner == f.kernel_runner
      rs2 == ExecuteOpSetUp(scratch[t], sn, t, req, kernel_runner, args)
      mem == (ArgsName(sn) :> [i \in 1..Len(args) |-> args[i].tensor])
               @@ (t :> rs2.input_tf_tensors)
               @@ Memory(scratch, async_ops)
      run == RunKernel(sn, t, rs2, kernel_runner, seq, f.op_chain,
                       f.results, outcome, mem)
  IN
  /\ scratch' = [scratch EXCEPT ![t] = CleanUpInputs(rs2)]
  /\ async_ops' = AddAsync(async_ops, sn, run.async_state)
  /\ last' = [f.base EXCEPT
                !.runner = kernel_runner,
                !.kernel_ran = TRUE,
                !.is_async = kernel_runner.op_kernel.is_async,
                !.kernel_inputs = run.kernel_inputs,
                !.copies = rs2.input_tf_tensors,
                !.status = run.status,
                !.op_chain = run.op_chain,
                !.results = run.results]

\* A handler that validated its arguments as the core-runtime entry does.
KernelFallbackExecuteOp_Validating(t, req, op_key, seq, args, outcome) ==
  LET sn == serial + 1
      f == ExecuteOpFrame(t, req, op_key, seq, args)
      vstatus == ValidateInputTypes(StripTfPrefix(f.op_name),
                                    [i \in 1..Len(args) |-> args[i].tensor],
                                    f.kernel_runner.op_kernel.input_types)
  IN
  /\ last.entry = "none"
  /\ serial < MaxInv
  /\ op_key \in DOMAIN runner_table
  /\ serial' = sn
  /\ UNCHANGED <<runner_table, runner_cache, lookup>>
  /\ IF req = NoRequestState
       THEN ExecuteOpEmitError(f, NotFound(RequestStateNotFoundMsg))
       ELSE IF ~StatusOk(vstatus)
         THEN ExecuteOpEmitError(f, vstatus)
         ELSE ExecuteOpRun(f, sn, t, req, seq, args, outcome)

KernelFallbackExecuteOp(t, req, op_key, seq, args, outcome) ==
  LET sn == serial + 1
      f == ExecuteOpFrame(t, req, op_key, seq, args)
  IN
  /\ last.entry = "none"
  /\ serial < MaxInv
  /\ op_key \in DOMAIN runner_table
  /\ serial' = sn
  /\ UNCHANGED <<runner_table, runner_cache, lookup>>
  /\ IF req = NoRequestState
       THEN ExecuteOpEmitError(f, NotFound(RequestStateNotFoundMsg))
       ELSE ExecuteOpRun(f, sn, t, req, seq, args, outcome)

\* ------------------------------------------------------------------------
\* KernelFallbackCreateOp (tfrt_fallback_async.createop)
\* ------------------------------------------------------------------------
StringError(m) == ErrStatus("STRING_ERROR", m)

\* A handler that registers the op key before the runner is constructed,
\* and leaves the entry behind when construction fails.
CreateOpOn_InsertsFirst(table, has_state, base, op_key, op_name_attr, device, num_args, build) ==
  LET op_name == StripTfPrefix(op_name_attr)
      statusor_runner ==
        OpKernelRunnerCreate(op_name, device, num_args, build)
      ins == TableInsert(table, op_key, statusor_runner.runner)
  IN
  IF ~has_state
    THEN [inv |-> [base EXCEPT
                     !.status = StringError(RequestStateNotFoundMsg)],
          table |-> table]
    ELSE IF ~ins.ok
      THEN [inv |->
              [base EXCEPT
                 !.constructed = TRUE,
                 !.runner = statusor_runner.runner,
                 !.status = StringError(
                   <<"KernelFallbackCreateOp: OpKernelRunner already exists: ">>
                     \o op_name_attr)],
            table |-> table]
      ELSE IF ~StatusOk(statusor_runner.status)
        THEN [inv |-> [base EXCEPT !.constructed = TRUE,
                                   !.status = statusor_runner.status],
              table |-> ins.table]
        ELSE [inv |-> [base EXCEPT !.constructed = TRUE,
                                   !.runner = statusor_runner.runner],
              table |-> ins.table]

\* The handler against the runner table `table` of the request state:
\* what it returns and the table it leaves.
CreateOpOn(table, has_state, base, op_key, op_name_attr, device, num_args, build) ==
  LET op_name == StripTfPrefix(op_name_attr)
      statusor_runner ==
        OpKernelRunnerCreate(op_name, device, num_args, build)
      ins == TableInsert(table, op_key, statusor_runner.runner)
  IN
  IF ~has_state
    THEN [inv |-> [base EXCEPT
                     !.status = StringError(RequestStateNotFoundMsg)],
          table |-> table]
    ELSE IF ~StatusOk(statusor_runner.status)
      THEN [inv |-> [base EXCEPT !.constructed = TRUE,
                                 !.status = statusor_runner.status],
            table |-> table]
      ELSE IF ~ins.ok
        THEN [inv |->
                [base EXCEPT
                   !.constructed = TRUE,
                   !.runner = statusor_runner.runner,
                   !.status = StringError(
                     <<"KernelFallbackCreateOp: OpKernelRunner already exists: ">>
                       \o op_name_attr)],
              table |-> table]
        ELSE [inv |-> [base EXCEPT !.constructed = TRUE,
                                   !.runner = statusor_runner.runner],
              table |-> ins.table]

KernelFallbackCreateOp(req, op_key, op_name_attr, device, num_args, build) ==
  LET base == [NoInvocation EXCEPT !.entry = "createop", !.req = req,
                 !.op_name = op_name_attr, !.op_key = op_key]
      c == CreateOpOn(runner_table, req # NoRequestState, base, op_key,
                      op_name_attr, device, num_args, build)
  IN
  /\ UNCHANGED <<scratch, runner_cache, async_ops, serial, lookup>>
  /\ last' = c.inv
  /\ runner_table' = c.table

\* ------------------------------------------------------------------------
\* Completion of an asynchronous kernel: done_callback and the publish task
\* ------------------------------------------------------------------------
DoneCallback(id, status) ==
  /\ last.entry = "none"
  /\ id \in DOMAIN async_ops
  /\ async_ops[id].pc = "in_flight"
  /\ async_ops' = [async_ops EXCEPT ![id] = CallbackEnter(@, id, status)]
  /\ UNCHANGED <<scratch, runner_table, runner_cache, serial, last, lookup>>

CallbackSetError(id) ==
  /\ last.entry = "none"
  /\ id \in DOMAIN async_ops
  /\ async_ops[id].pc = "set_error"
  /\ async_ops' = [async_ops EXCEPT ![id] = SetErrorNext(@)]
  /\ UNCHANGED <<scratch, runner_table, runner_cache, serial, last, lookup>>

\* A publish task that emplaces the chain before the outputs.
PublishNext_ChainFirst(a) ==
  IF a.chain.state = "unavailable"
    THEN [a EXCEPT !.chain = ReadyChain, !.pc = "publishing"]
    ELSE IF a.next < a.num_outputs
      THEN [a EXCEPT !.result_refs[a.next] = ValueFuture(a.outputs[a.next]),
                     !.next = a.next + 1]
      ELSE [a EXCEPT !.result_refs =
                       [i \in 1..a.num_outputs |->
                          IF i = a.next THEN ValueFuture(a.outputs[i])
                                        ELSE a.result_refs[i]],
                     !.pc = "done"]

\* A publish task that emplaces the outputs and finishes without emplacing
\* the chain.
PublishNext_NoChain(a) ==
  IF a.next < a.num_outputs
    THEN [a EXCEPT !.result_refs[a.next] = ValueFuture(a.outputs[a.next]),
                   !.next = a.next + 1, !.pc = "publishing",
                   !.log = @ \o <<"task_write">>]
    ELSE [a EXCEPT !.result_refs =
                     [i \in 1..a.num_outputs |->
                        IF i = a.next THEN ValueFuture(a.outputs[i])
                                      ELSE a.result_refs[i]],
                   !.pc = "done",
                   !.log = @ \o <<"task_write">>]

\* One emplace of the publish task: the outputs in order, then the chain;
\* the task's closure is destroyed when the task has run.
PublishNext(a) ==
  IF a.next <= a.num_outputs
    THEN [a EXCEPT !.result_refs[a.next] = ValueFuture(a.outputs[a.next]),
                   !.next = a.next + 1, !.pc = "publishing",
                   !.log = @ \o <<"task_write">>]
    ELSE [a EXCEPT !.chain = ReadyChain, !.pc = "done",
                   !.log = @ \o <<"task_write">>,
                   !.refs = @ \ {"task"}]

PublishTask(id) ==
  /\ last.entry = "none"
  /\ id \in DOMAIN async_ops
  /\ async_ops[id].pc \in {"enqueued", "publishing"}
  /\ async_ops' = [async_ops EXCEPT ![id] = PublishNext(@)]
  /\ UNCHANGED <<scratch, runner_table, runner_cache, serial, last, lookup>>

\* The caller takes the results of the handler that returned; the next
\* handler invocation starts after that.
TakeResults ==
  /\ last.entry # "none"
  /\ ~last.in_run
  /\ last' = NoInvocation
  /\ UNCHANGED <<scratch, runner_table, runner_cache, async_ops, serial,
                 lookup>>
  /\ UNCHANGED resource_vars

\* ------------------------------------------------------------------------
\* Specification
\* ------------------------------------------------------------------------
Workers == {"t1"}
RequestChoices == {"r1", NoRequestState}

Dispatch ==
  /\ last.entry = "none" /\ serial < MaxInv
  /\ \E t \in Workers, req \in RequestChoices, op_name \in KernelNames,
     arguments \in DispatchArgLists(serial + 1), build \in BuildOutcomes,
     outcome \in AsyncOutcomes :
       /\ (outcome = Pending) => KernelOf(op_name).is_async
       /\ req = NoRequestState => arguments = <<>>
       /\ CoreRuntimeDispatch(t, req, op_name, arguments, build, outcome)
  /\ UNCHANGED resource_vars

ExecuteOp ==
  /\ last.entry = "none" /\ serial < MaxInv
  /\ \E t \in Workers, req \in RequestChoices, op_key \in OpKeys,
     seq \in BOOLEAN, args \in ExecuteArgLists(serial + 1),
     outcome \in AsyncOutcomes :
       /\ (outcome = Pending)
            => TableGet(runner_table, op_key).op_kernel.is_async
       /\ req = NoRequestState => args = <<>>
       /\ KernelFallbackExecuteOp(t, req, op_key, seq, args, outcome)
  /\ UNCHANGED resource_vars

CreateOp ==
  /\ last.entry = "none"
  /\ \E req \in RequestChoices, op_key \in OpKeys, name \in KernelNames,
        build \in BuildOutcomes :
       KernelFallbackCreateOp(req, op_key, <<"tf.">> \o name, HostCpu,
                              Len(KernelOf(name).input_types), build)
  /\ UNCHANGED resource_vars

\* executeop on a created op key, without arguments.
LookupOp ==
  /\ last.entry = "none" /\ serial < MaxInv
  /\ \E t \in Workers, req \in RequestChoices, op_key \in OpKeys,
        seq \in BOOLEAN, outcome \in AsyncOutcomes :
       /\ (outcome = Pending)
            => TableGet(runner_table, op_key).op_kernel.is_async
       /\ KernelFallbackExecuteOp(t, req, op_key, seq, <<>>, outcome)
  /\ UNCHANGED resource_vars

AsyncDone ==
  /\ \E id \in DOMAIN async_ops, status \in KernelOutcomes :
       DoneCallback(id, status)
  /\ UNCHANGED resource_vars

AsyncSetError ==
  /\ \E id \in DOMAIN async_ops : CallbackSetError(id)
  /\ UNCHANGED resource_vars

AsyncPublish ==
  /\ \E id \in DOMAIN async_ops : PublishTask(id)
  /\ UNCHANGED resource_vars

Next ==
  \/ Dispatch
  \/ ExecuteOp
  \/ AsyncDone
  \/ AsyncSetError
  \/ AsyncPublish
  \/ TakeResults

Spec == Init /\ [][Next]_vars

\* ------------------------------------------------------------------------
\* The runner table from empty: createop for any op and executeop lookups.
\* ------------------------------------------------------------------------
TableInit ==
  /\ scratch = [t \in Threads |-> EmptyRunState]
  /\ runner_table = <<>>
  /\ runner_cache = <<>>
  /\ async_ops = <<>>
  /\ serial = 0
  /\ last = NoInvocation
  /\ lookup = [t \in Threads |-> NoLookup]
  /\ request_ctx = [r \in Requests |-> NoRequestContext]
  /\ resources = (CallerTable :> EmptyResource)
  /\ kernels = <<>>

TableNext ==
  \/ CreateOp
  \/ LookupOp
  \/ TakeResults

TableSpec == TableInit /\ [][TableNext]_vars

\* ------------------------------------------------------------------------
\* The runner cache under concurrent dispatch: each thread's GetOrCreate is
\* a lookup under the shared lock followed, on a miss, by the critical
\* section under the exclusive lock.
\* ------------------------------------------------------------------------
CachedOps == {<<"Add">>, <<"CollectiveGather">>}

SameKey(a, b) == a.op_name = b.op_name /\ a.num_args = b.num_args

\* The lookup under the shared lock.
GetOrCreateShared(t, op_name, num_args) ==
  LET key == CacheKey(Location, op_name, HostCpu, num_args)
      call == [NoLookup EXCEPT !.op_name = op_name, !.num_args = num_args,
                               !.calls = lookup[t].calls + 1]
      peers == {u \in Threads \ {t} :
                  lookup[u].pc = "missed" /\ SameKey(lookup[u], call)}
  IN
  /\ lookup[t].pc \in {"idle", "returned"}
  /\ lookup[t].calls < MaxLookups
  /\ IF key \in DOMAIN runner_cache
       THEN lookup' = [lookup EXCEPT
                         ![t] = [call EXCEPT !.pc = "returned",
                                             !.runner = runner_cache[key]]]
       ELSE lookup' =
              [u \in Threads |->
                 IF u = t THEN [call EXCEPT !.pc = "missed",
                                            !.overlaps = peers]
                 ELSE IF u \in peers
                   THEN [lookup[u] EXCEPT !.overlaps = @ \cup {t}]
                   ELSE lookup[u]]
  /\ UNCHANGED <<scratch, runner_table, runner_cache, async_ops, serial,
                 last>>

\* The critical section under the exclusive lock.
GetOrCreateExclusive(t, build) ==
  LET g == GetOrCreateLocked(runner_cache, Location, lookup[t].op_name,
                             HostCpu, lookup[t].num_args, build)
  IN
  /\ lookup[t].pc = "missed"
  /\ runner_cache' = g.cache
  /\ lookup' = [lookup EXCEPT ![t].pc = "returned",
                              ![t].status = g.status,
                              ![t].runner = g.runner,
                              ![t].constructed = g.constructed]
  /\ UNCHANGED <<scratch, runner_table, async_ops, serial, last>>

CacheLookup ==
  /\ \E t \in Threads, op_name \in CachedOps :
       GetOrCreateShared(t, op_name, Len(KernelOf(op_name).input_types))
  /\ UNCHANGED resource_vars

CacheConstruct ==
  /\ \E t \in Threads, build \in BuildOutcomes :
       GetOrCreateExclusive(t, build)
  /\ UNCHANGED resource_vars

CacheNext ==
  \/ CacheLookup
  \/ CacheConstruct

CacheSpec == Init /\ [][CacheNext]_vars

\* ------------------------------------------------------------------------
\* Properties
\* ------------------------------------------------------------------------
Handlers == {"dispatch", "executeop"}

ArgTensorsOf(inv) == [i \in 1..Len(inv.args) |-> inv.args[i].tensor]

DeclaredTypes(inv) == inv.runner.op_kernel.input_types

CountMatches(inv) == Len(inv.args) = Len(DeclaredTypes(inv))

DTypesMatch(inv) ==
  \A i \in 1..Len(inv.args) :
    i <= Len(DeclaredTypes(inv))
      => inv.args[i].tensor.dtype = DeclaredTypes(inv)[i]

\* A core-runtime dispatch that got as far as validating its arguments.
ReachedValidation(inv) ==
  /\ inv.entry = "dispatch"
  /\ inv.req # NoRequestState
  /\ inv.runner # NoRunner
  /\ \A i \in 1..Len(inv.args) : inv.args[i].kind = "dense_host"

RejectedInvalid(inv) ==
  /\ ~inv.kernel_ran
  /\ inv.status.code = "INVALID_ARGUMENT"
  /\ inv.op_chain.fut.state = "error"
  /\ inv.op_chain.fut.error.code = "kInvalidArgument"
  /\ \A i \in 1..Len(inv.results) :
       /\ inv.results[i].fut.state = "error"
       /\ inv.results[i].fut.error.code = "kInvalidArgument"

SuccessPath(a) ==
  a.pc \in {"enqueued", "publishing", "done"} /\ StatusOk(a.status)

\* The futures of an asynchronous op that are available: 0 is the
\* completion token, i the i-th declared output.
AvailableSet(a) ==
  {i \in 1..a.num_outputs : a.result_refs[i].state # "unavailable"} \cup
  (IF a.chain.state # "unavailable" THEN {0} ELSE {})

SyncSuccess(inv) ==
  /\ inv.entry \in Handlers
  /\ inv.kernel_ran /\ ~inv.is_async /\ StatusOk(inv.status)

SyncAllAvailable(inv) ==
  /\ Len(inv.results) = inv.runner.op_kernel.num_outputs
  /\ \A i \in 1..Len(inv.results) :
       /\ inv.results[i].fut.state = "value"
       /\ inv.results[i].fut.value.role = "out"
       /\ inv.results[i].fut.value.idx = i
  /\ inv.has_chain => inv.op_chain.fut = ReadyChain

\* C1 as stated: for an op whose kernel succeeds, the available futures
\* among its declared outputs and its completion token are none of them or
\* all of them in every reachable state.
C1_AllOrNothing ==
  /\ SyncSuccess(last) => SyncAllAvailable(last)
  /\ \A id \in DOMAIN async_ops :
       SuccessPath(async_ops[id]) =>
         AvailableSet(async_ops[id]) \in
           {{}, 0..async_ops[id].num_outputs}

\* C1 (amended): a synchronous success returns with every output and the
\* token available; an asynchronous success makes the outputs available one
\* by one in index order and the token last, so the available futures are
\* always a prefix of the outputs, and the token is available only when
\* every output is.
C1_PrefixThenToken ==
  /\ SyncSuccess(last) => SyncAllAvailable(last)
  /\ \A id \in DOMAIN async_ops :
       LET a == async_ops[id] IN
       /\ a.pc = "in_flight" => AvailableSet(a) = {}
       /\ SuccessPath(a) =>
            /\ \E k \in 0..a.num_outputs :
                 AvailableSet(a) \ {0} = 1..k
            /\ \A i \in AvailableSet(a) \ {0} :
                 a.result_refs[i] = ValueFuture(OutTensor(id, i))
            /\ 0 \in AvailableSet(a) <=>
                 (a.pc = "done" /\ a.chain = ReadyChain)
            /\ 0 \in AvailableSet(a) =>
                 AvailableSet(a) = 0..a.num_outputs

C1_Witness ==
  \E id \in DOMAIN async_ops :
    /\ SuccessPath(async_ops[id])
    /\ async_ops[id].num_outputs = 2
    /\ AvailableSet(async_ops[id]) = {1}

\* The one error a failed kernel leaves in every future of the op.
ExpectedKernelError(kernel_name, status) ==
  ErrorFuture(
    [code |-> ConvertTfErrorCodeToTfrtErrorCode(status),
     msg |-> <<"error running kernel fallback kernel ">> \o kernel_name
               \o <<": ">> \o status.msg])

SyncKernelFailure(inv) ==
  /\ inv.entry \in Handlers
  /\ inv.kernel_ran /\ ~inv.is_async /\ ~StatusOk(inv.status)

AsyncKernelFailure(a) == a.pc = "done" /\ ~StatusOk(a.status)

\* C2: when the kernel reports a failure status, synchronously or in the
\* completion callback, every declared output and the completion token
\* (when the op has one) hold the same error, with the translated code and
\* the message made of the op name and the kernel's message, and no output
\* holds a value.
C2_UniformKernelError ==
  /\ SyncKernelFailure(last) =>
       LET e == ExpectedKernelError(last.runner.op_kernel.name, last.status)
       IN /\ Len(last.results) = last.runner.op_kernel.num_outputs
          /\ \A i \in 1..Len(last.results) : last.results[i].fut = e
          /\ last.has_chain => last.op_chain.fut = e
  /\ \A id \in DOMAIN async_ops :
       LET a == async_ops[id] IN
       AsyncKernelFailure(a) =>
         LET e == ExpectedKernelError(a.run_state.params.op_kernel.name,
                                      a.status)
         IN /\ Len(a.result_refs) = a.num_outputs
            /\ \A i \in 1..a.num_outputs : a.result_refs[i] = e
            /\ a.chain = e

C2_Witness ==
  /\ SyncKernelFailure(last)
  /\ last.has_chain
  /\ last.status.code = "ABORTED"
  /\ last.op_chain.fut.error.code = "kAborted"
  /\ \E id \in DOMAIN async_ops :
       /\ AsyncKernelFailure(async_ops[id])
       /\ async_ops[id].num_outputs = 2

\* C6: in the core-runtime dispatch entry point, for every op but the
\* exempted one, an invocation whose argument count or whose data type at
\* any position differs from the kernel's declaration ends with an
\* invalid-argument error in every output and the token and the kernel is
\* not run; an invocation that matches runs the kernel.
C6_DispatchValidates ==
  (ReachedValidation(last) /\ last.op_name # BatchFunctionFallback) =>
    IF CountMatches(last) /\ DTypesMatch(last)
      THEN last.kernel_ran
      ELSE RejectedInvalid(last)

C6_Witness ==
  /\ ReachedValidation(last)
  /\ last.op_name = <<"Add">>
  /\ CountMatches(last) /\ ~DTypesMatch(last)
  /\ RejectedInvalid(last)

\* C7 as stated: a dispatch of _BatchFunctionFallback whose argument count
\* differs from the kernel's declared input count is rejected with an
\* invalid-argument error and its kernel is not run.
C7_ExemptCountChecked ==
  (/\ ReachedValidation(last)
   /\ last.op_name = BatchFunctionFallback
   /\ ~CountMatches(last)) => RejectedInvalid(last)

ExecuteOpWithState(inv) ==
  inv.entry = "executeop" /\ inv.req # NoRequestState

\* C8 as stated: an executeop invocation whose argument count or data
\* types differ from the kernel's declaration is rejected before the runner
\* is run.
C8_ExecuteOpValidates ==
  (ExecuteOpWithState(last) /\ ~(CountMatches(last) /\ DTypesMatch(last)))
    => ~last.kernel_ran

\* C8 (amended): the executeop path validates neither the count nor the
\* data types of the arguments; whenever the request state is present the
\* runner is run with the arguments as passed, and only the kernel's own
\* status decides the outcome.
C8_ExecuteOpRunsUnvalidated ==
  ExecuteOpWithState(last) =>
    /\ last.kernel_ran
    /\ last.status.code # "INVALID_ARGUMENT"
    /\ Len(last.kernel_inputs) = Len(last.args)

C8_Witness ==
  /\ ExecuteOpWithState(last)
  /\ ~CountMatches(last)
  /\ \E i \in 1..Len(last.args) :
       i <= Len(DeclaredTypes(last))
         /\ last.args[i].tensor.dtype # DeclaredTypes(last)[i]
  /\ last.kernel_ran

\* C9: the inputs handed to a kernel are exactly as many handles as the
\* invocation has arguments, handle i referring to the invocation's own
\* argument i, whatever an earlier invocation on the thread left in the
\* thread-local scratch state.
C9_OwnInputsOnly ==
  (last.entry \in Handlers /\ last.kernel_ran) =>
    last.kernel_inputs = ArgTensorsOf(last)

\* The second invocation on the thread has fewer arguments than the first.
C9_Witness ==
  /\ serial = 2
  /\ 1 \in DOMAIN async_ops
  /\ Len(async_ops[1].run_state.input_tf_tensor_values) = 2
  /\ last.entry \in Handlers /\ last.kernel_ran
  /\ Len(last.args) = 1
  /\ last.kernel_inputs = <<last.args[1].tensor>>
  /\ last.kernel_inputs[1].owner = 2

\* C10: whenever a handler has returned, whatever the exit path, the
\* thread's scratch input_tf_tensors is empty, so it is empty when the next
\* invocation on the thread starts.
C10_ScratchCleared ==
  \A t \in Threads : scratch[t].input_tf_tensors = <<>>

C10_Witness ==
  /\ last.entry \in Handlers
  /\ last.copies # <<>>
  /\ scratch[last.thread].input_tf_tensors = <<>>
  /\ scratch[last.thread].input_tf_tensor_values # <<>>

\* ------------------------------------------------------------------------
\* Properties of the runner table (TableSpec)
\* ------------------------------------------------------------------------
AlreadyExists(status) ==
  /\ status.code = "STRING_ERROR"
  /\ Head(status.msg) =
       "KernelFallbackCreateOp: OpKernelRunner already exists: "

LookupKey(c) == CacheKey(Location, c.op_name, HostCpu, c.num_args)

\* Two returned GetOrCreate calls on the same key that were both in progress
\* at the same time, neither finding the key under the shared lock.
Overlapped(t, u) ==
  /\ t # u
  /\ lookup[t].pc = "returned" /\ lookup[u].pc = "returned"
  /\ SameKey(lookup[t], lookup[u])
  /\ u \in lookup[t].overlaps /\ t \in lookup[u].overlaps

C4_FailureNotCached ==
  [][\A t \in Threads :
       (lookup[t].pc = "missed" /\ lookup'[t].pc = "returned") =>
         /\ ~StatusOk(lookup'[t].status) =>
              /\ lookup'[t].constructed
              /\ lookup'[t].runner = NoRunner
              /\ runner_cache' = runner_cache
              /\ LookupKey(lookup[t]) \notin DOMAIN runner_cache'
         /\ LookupKey(lookup[t]) \notin DOMAIN runner_cache =>
              lookup'[t].constructed
         /\ \A k \in DOMAIN runner_cache' : runner_cache'[k] # NoRunner
    ]_vars

\* A construction failed with each kind of failure, and a later call on
\* the same key constructed the runner.
C4_Witness ==
  \E t, u \in Threads :
    /\ t # u
    /\ lookup[t].pc = "returned" /\ lookup[u].pc = "returned"
    /\ SameKey(lookup[t], lookup[u])
    /\ u \notin lookup[t].overlaps
    /\ lookup[t].constructed /\ ~StatusOk(lookup[t].status)
    /\ Head(lookup[t].status.msg) = "attr_builder_error"
    /\ lookup[u].constructed /\ StatusOk(lookup[u].status)
    /\ LookupKey(lookup[u]) \in DOMAIN runner_cache

\* ------------------------------------------------------------------------
\* Properties of the asynchronous and synchronous paths
\* ------------------------------------------------------------------------
\* The future a slot of the caller refers to.
CallerFuture(slot) ==
  IF slot.av = "shared"
    THEN IF slot.idx = 0 THEN async_ops[slot.id].chain
                         ELSE async_ops[slot.id].result_refs[slot.idx]
    ELSE slot.fut

AsyncReturned(inv) ==
  inv.entry \in Handlers /\ inv.kernel_ran /\ inv.is_async

CallerFuturesPending(inv) ==
  /\ \A i \in 1..Len(inv.results) :
       CallerFuture(inv.results[i]).state = "unavailable"
  /\ inv.has_chain => CallerFuture(inv.op_chain).state = "unavailable"

\* The events of a successful asynchronous op, in order: the futures are
\* installed, RunAsync is called, the callback runs and enqueues the publish
\* task, the task writes each output and then the token.
SuccessLog(n) ==
  <<"install", "run_async", "callback", "enqueue">> \o
  [i \in 1..(n + 1) |-> "task_write"]

PublishedInOrder(id) ==
  LET a == async_ops[id] IN
  /\ \A i \in AvailableSet(a) \ {0} :
       a.result_refs[i] = ValueFuture(OutTensor(id, i))
  /\ a.log = SubSeq(SuccessLog(a.num_outputs), 1,
                    4 + Cardinality(AvailableSet(a)))
  /\ 0 \in AvailableSet(a) => AvailableSet(a) = 0..a.num_outputs

\* C12 as stated: when the dispatch call of an asynchronous op returns, the
\* caller's output futures and token are not yet available; on the success
\* path each output becomes available with the tensor the kernel produced
\* and the token only after the callback ran and the publish task was
\* enqueued.
C12_PendingAtReturn ==
  /\ AsyncReturned(last) => CallerFuturesPending(last)
  /\ \A id \in DOMAIN async_ops :
       SuccessPath(async_ops[id]) => PublishedInOrder(id)

\* C12 (amended): when the dispatch call of an asynchronous op returns and
\* the kernel has not yet invoked the completion callback, the caller's
\* output futures and token are not available (a kernel that calls done
\* inside RunAsync with a failure leaves them holding the error at return);
\* on the success path each output becomes available with the tensor the
\* kernel produced and the token only after the callback ran and the
\* publish task was enqueued.
C12_PendingUntilCallback ==
  /\ (AsyncReturned(last) /\ async_ops[serial].pc = "in_flight")
       => CallerFuturesPending(last)
  /\ \A id \in DOMAIN async_ops :
       /\ async_ops[id].pc = "in_flight" =>
            /\ AvailableSet(async_ops[id]) = {}
            /\ async_ops[id].log = <<"install", "run_async">>
       /\ SuccessPath(async_ops[id]) => PublishedInOrder(id)

C12_Witness ==
  \E id \in DOMAIN async_ops :
    /\ SuccessPath(async_ops[id])
    /\ async_ops[id].pc = "done"
    /\ async_ops[id].num_outputs = 1
    /\ async_ops[id].result_refs[1] = ValueFuture(OutTensor(id, 1))
    /\ async_ops[id].chain = ReadyChain

Count(log, ev) == Cardinality({i \in 1..Len(log) : log[i] = ev})

\* C13: on a failure status the completion callback writes the error into
\* every output future and the token itself and enqueues no task; on a
\* success status the callback writes nothing, and every value is written
\* by the task it enqueued.
C13_FailureInlineSuccessEnqueued ==
  \A id \in DOMAIN async_ops :
    LET a == async_ops[id] IN
    /\ (a.pc \in {"set_error", "done"} /\ ~StatusOk(a.status)) =>
         /\ Count(a.log, "enqueue") = 0
         /\ Count(a.log, "task_write") = 0
         /\ Count(a.log, "callback_write") = Cardinality(AvailableSet(a))
         /\ a.pc = "done" =>
              Count(a.log, "callback_write") = a.num_outputs + 1
    /\ SuccessPath(a) =>
         /\ Count(a.log, "callback_write") = 0
         /\ Count(a.log, "enqueue") = 1
         /\ Count(a.log, "task_write") = Cardinality(AvailableSet(a))
         /\ a.pc = "enqueued" => AvailableSet(a) = {}

C13_Witness ==
  \E id, jd \in DOMAIN async_ops :
    /\ async_ops[id].pc = "done" /\ ~StatusOk(async_ops[id].status)
    /\ Count(async_ops[id].log, "callback_write") = 2
    /\ async_ops[jd].pc = "done" /\ StatusOk(async_ops[jd].status)
    /\ Count(async_ops[jd].log, "task_write") = 2

\* C14: the asynchronous dispatch installs a future of the AsyncState in
\* every declared result slot and in the token before it calls RunAsync,
\* and returns holding exactly those futures whether the completion
\* callback has fired or not.
C14_ReturnsInstalledFutures ==
  AsyncReturned(last) =>
    /\ serial \in DOMAIN async_ops
    /\ Len(last.results) = last.runner.op_kernel.num_outputs
    /\ Len(async_ops[serial].result_refs) = Len(last.results)
    /\ \A i \in 1..Len(last.results) :
         last.results[i] = SharedSlot(serial, i)
    /\ last.has_chain => last.op_chain = SharedSlot(serial, 0)
    /\ SubSeq(async_ops[serial].log, 1, 2) = <<"install", "run_async">>
    /\ async_ops[serial].pc \in {"in_flight", "enqueued", "done"}

C14_Witness ==
  /\ AsyncReturned(last)
  /\ last.has_chain
  /\ Len(last.results) = 2
  /\ async_ops[serial].pc = "in_flight"
  /\ \E id \in DOMAIN async_ops : id # serial /\ async_ops[id].pc = "done"

\* C15: when a synchronous kernel's Run finishes with OK status, the call
\* returns with every declared output slot i holding an available value,
\* the kernel's i-th output, with the completion token available, and with
\* no slot holding an error or a pending future.
C15_SyncSuccessAvailable ==
  SyncSuccess(last) =>
    /\ Len(last.results) = last.runner.op_kernel.num_outputs
    /\ \A i \in 1..Len(last.results) :
         last.results[i] = InlineSlot(ValueFuture(OutTensor(serial, i)))
    /\ last.has_chain => last.op_chain = InlineSlot(ReadyChain)

C15_Witness ==
  /\ SyncSuccess(last)
  /\ last.op_name = <<"Add">>
  /\ last.entry = "dispatch"
  /\ Len(last.results) = 1
  /\ last.results[1].fut.value = OutTensor(serial, 1)
  /\ last.op_chain.fut = ReadyChain

\* ------------------------------------------------------------------------
\* Properties of the argument handling of executeop
\* ------------------------------------------------------------------------
\* The invocation that just returned is an executeop that reached its kernel.
ExecuteOpRan(inv) == inv.entry = "executeop" /\ inv.kernel_ran

\* Argument i of the invocation is mutable and shared.
MutableShared(inv, i) == ~inv.args[i].is_immutable /\ ~inv.args[i].is_unique

\* The scratch buffer held an owned copy of the tensor of argument i.
CopyHeld(inv, i) ==
  \E j \in 1..Len(inv.copies) : inv.copies[j] = inv.args[i].tensor

\* C20: in executeop, for every combination of argument flags, the scratch
\* buffer holds an owned copy of argument i exactly when argument i is
\* mutable and shared, no other copy is added, and handle i refers to the
\* tensor of argument i in every case.
C20_CopyIffMutableShared ==
  ExecuteOpRan(last) =>
    /\ \A i \in 1..Len(last.args) : CopyHeld(last, i) <=> MutableShared(last, i)
    /\ Len(last.copies) =
         Cardinality({i \in 1..Len(last.args) : MutableShared(last, i)})
    /\ Len(last.kernel_inputs) = Len(last.args)
    /\ \A i \in 1..Len(last.args) :
         last.kernel_inputs[i] = last.args[i].tensor

\* An executeop ran with one argument copied and one argument that is
\* mutable but uniquely referenced, so only borrowed.
C20_Witness ==
  /\ ExecuteOpRan(last)
  /\ Len(last.args) = 2
  /\ \E i, j \in 1..2 :
       /\ MutableShared(last, i) /\ CopyHeld(last, i)
       /\ ~last.args[j].is_immutable /\ last.args[j].is_unique
       /\ ~CopyHeld(last, j)
       /\ last.kernel_inputs[j] = last.args[j].tensor

\* ------------------------------------------------------------------------
\* Several worker threads: handlers on either thread, with the request
\* state present and successful runner construction, interleaved with the
\* completion callbacks and publish tasks of the asynchronous ops.
\* ------------------------------------------------------------------------
ThreadDispatch ==
  /\ last.entry = "none" /\ serial < MaxInv
  /\ \E t \in Threads, op_name \in KernelNames,
        arguments \in DispatchArgLists(serial + 1),
        outcome \in AsyncOutcomes :
       /\ (outcome = Pending) => KernelOf(op_name).is_async
       /\ CoreRuntimeDispatch(t, "r1", op_name, arguments, "ok", outcome)
  /\ UNCHANGED resource_vars

ThreadExecuteOp ==
  /\ last.entry = "none" /\ serial < MaxInv
  /\ \E t \in Threads, op_key \in OpKeys, seq \in BOOLEAN,
        args \in ExecuteArgLists(serial + 1), outcome \in AsyncOutcomes :
       /\ (outcome = Pending)
            => TableGet(runner_table, op_key).op_kernel.is_async
       /\ KernelFallbackExecuteOp(t, "r1", op_key, seq, args, outcome)
  /\ UNCHANGED resource_vars

ThreadsNext ==
  \/ ThreadDispatch
  \/ ThreadExecuteOp
  \/ AsyncDone
  \/ AsyncSetError
  \/ AsyncPublish
  \/ TakeResults

ThreadsSpec == Init /\ [][ThreadsNext]_vars

\* Every pointer of the AsyncState of invocation id refers to the
\* AsyncState's own run state.
AsyncStateSelfContained(id) ==
  LET rs == async_ops[id].run_state IN
  /\ rs.params.inputs = AsyncName(id)
  /\ \A i \in 1..Len(rs.input_tf_tensor_values) :
       rs.input_tf_tensor_values[i].at = AsyncName(id)

\* The pointers of the scratch state of thread t refer to the thread's own
\* scratch state or to the arguments of a handler, never to another
\* thread's scratch state or to an AsyncState.
ScratchPointsHome(t) ==
  /\ scratch[t].params.inputs \in {"null", t}
  /\ \A i \in 1..Len(scratch[t].input_tf_tensor_values) :
       scratch[t].input_tf_tensor_values[i].at
         \in {"null", t} \cup {ArgsName(n) : n \in 1..MaxInv}

\* A step changes the scratch state of thread t only when it is a handler
\* running on thread t.
OnlyOwnerWrites ==
  \A t \in Threads :
    scratch'[t] # scratch[t]
      => /\ serial' = serial + 1
         /\ last'.entry \in {"dispatch", "executeop"}
         /\ last'.thread = t

\* A step of a completion callback or publish task changes the AsyncState
\* it belongs to and nothing else.
CompletionTouchesAsyncStateOnly ==
  (serial' = serial /\ async_ops' # async_ops)
    => /\ scratch' = scratch
       /\ \E id \in DOMAIN async_ops :
            \A other \in DOMAIN async_ops \ {id} :
              async_ops'[other] = async_ops[other]

\* C18: with several worker threads running handlers and completion
\* callbacks and publish tasks interleaved with them, the scratch run state
\* of a thread is written only by handlers on that thread and points only
\* at itself; the completion callback and the publish task work on an
\* AsyncState whose pointers refer only to itself and never change any
\* thread's scratch state.
C18_ScratchThreadLocal ==
  /\ [](\A t \in Threads : ScratchPointsHome(t))
  /\ [](\A id \in DOMAIN async_ops : AsyncStateSelfContained(id))
  /\ [][OnlyOwnerWrites /\ CompletionTouchesAsyncStateOnly]_vars

\* Both threads have run a handler with arguments, and the publish task of
\* an asynchronous op with an input is at work after a later handler ran.
C18_Witness ==
  /\ \A t \in Threads : scratch[t].params.inputs = t
  /\ \A t \in Threads : Len(scratch[t].input_tf_tensor_values) > 0
  /\ \E id \in DOMAIN async_ops :
       /\ id < serial
       /\ async_ops[id].pc = "publishing"
       /\ Len(async_ops[id].run_state.input_tf_tensors) > 0

\* ------------------------------------------------------------------------
\* Requests on shared resource contexts.  Request r1 is set up on resource
\* context rc1; request r2 is built on either context, with or without the
\* fallback state.  The set_resource, get_resource and createop kernels of
\* the BEF functions of the two requests are submitted and run; the
\* in-chain of a kernel is the chain argument of its function (0) or the
\* out-chain of the kernel submitted before it.
\* ------------------------------------------------------------------------
MaxKernels == 3
Indices == {1, 2}
IndexLists == {<<1>>, <<2, 1>>}
KernelOps == {"set_resource", "get_resource", "createop"}
CreatedKeys == {1}

NoKernelInstance ==
  [op |-> "none", req |-> "none", index |-> 0, indices |-> <<>>,
   op_key |-> 0, arg |-> [tensor |-> NoTensor, is_immutable |-> FALSE,
                          is_unique |-> FALSE],
   in_ch |-> 0, done |-> FALSE, at |-> 0, status |-> OkStatus,
   out_ch |-> NullSlot, results |-> <<>>]

\* The argument of the k-th kernel when it is a set_resource.
ResourceArg(k) ==
  [tensor |-> ArgTensor(k, 1, "DT_FLOAT"), is_immutable |-> FALSE,
   is_unique |-> FALSE]

\* The chain a kernel takes as its in-chain.
ChainOf(ks, c) ==
  IF c = 0 THEN ReadyChain
  ELSE IF ks[c].done THEN ks[c].out_ch.fut ELSE Unavailable

\* An executor that runs a kernel without looking at its in-chain.
CanRun_IgnoresToken(ks, k) == ~ks[k].done

\* The executor runs a kernel once, when its in-chain is available.
CanRun(ks, k) == ~ks[k].done /\ ChainOf(ks, ks[k].in_ch).state = "value"

Executed(ks) == Cardinality({k \in DOMAIN ks : ks[k].done})

ResourceInit ==
  LET s == SetUpKernelFallbackCompatRequestContext(
             (CallerTable :> EmptyResource), "rc1")
  IN
  /\ scratch = [t \in Threads |-> EmptyRunState]
  /\ runner_table = GraphTable
  /\ runner_cache = <<>>
  /\ async_ops = <<>>
  /\ serial = 0
  /\ last = NoInvocation
  /\ lookup = [t \in Threads |-> NoLookup]
  /\ request_ctx = [r \in Requests |->
                      IF r = "r1" THEN s.context ELSE NoRequestContext]
  /\ resources = s.resources
  /\ kernels = <<>>

\* The request context of r is built, with the fallback state set up by one
\* of the two set-up functions or without it.
BuildRequest ==
  /\ \E r \in Requests, rc \in ResourceContexts,
        setup \in {"none", "graph", "eager"},
        table \in {NullPtr, CallerTable} :
       /\ ~request_ctx[r].built
       /\ (setup # "eager") => table = NullPtr
       /\ (setup = "none") => rc = "rc1"
       /\ LET s == CASE setup = "eager" ->
                         SetUpKernelFallbackCompatRequestContextEager(
                           resources, rc, table)
                      [] setup = "graph" ->
                         SetUpKernelFallbackCompatRequestContext(
                           resources, rc)
                      [] OTHER ->
                         [resources |-> resources,
                          context |-> [NoRequestContext EXCEPT
                                         !.built = TRUE,
                                         !.resource_context = rc]]
          IN /\ request_ctx' = [request_ctx EXCEPT ![r] = s.context]
             /\ resources' = s.resources
  /\ UNCHANGED <<kernels, last>>
  /\ UNCHANGED engine_vars

\* Kernel (op, ..) of the function of request r is handed to the executor.
Submit(r, op, index, indices, op_key, in_ch) ==
  /\ (op = "set_resource") <=> (index # 0)
  /\ (op = "get_resource") <=> (indices # <<>>)
  /\ (op = "createop") <=> (op_key # 0)
  /\ kernels' =
       Append(kernels,
              [NoKernelInstance EXCEPT
                 !.op = op, !.req = r, !.index = index,
                 !.indices = indices, !.op_key = op_key,
                 !.arg = IF op = "set_resource"
                           THEN ResourceArg(Len(kernels) + 1) ELSE @,
                 !.in_ch = in_ch])
  /\ UNCHANGED <<request_ctx, resources, last>>
  /\ UNCHANGED engine_vars

SubmitKernel ==
  /\ Len(kernels) < MaxKernels
  /\ \E r \in Requests, op \in KernelOps, index \in Indices \cup {0},
        indices \in IndexLists \cup {<<>>}, op_key \in CreatedKeys \cup {0},
        in_ch \in {0, Len(kernels)} :
       Submit(r, op, index, indices, op_key, in_ch)

\* The executor picks a kernel of a built request that can run.
Runnable(k, op) ==
  /\ kernels[k].op = op
  /\ request_ctx[kernels[k].req].built
  /\ CanRun(kernels, k)

RunSetResource ==
  /\ \E k \in DOMAIN kernels :
       /\ Runnable(k, "set_resource")
       /\ LET h == FallbackSetResource(resources,
                                       request_ctx[kernels[k].req],
                                       kernels[k].arg, kernels[k].index)
          IN /\ resources' = h.resources
             /\ kernels' = [kernels EXCEPT
                              ![k].done = TRUE,
                              ![k].at = Executed(kernels) + 1,
                              ![k].status = h.status,
                              ![k].out_ch = h.out_ch]
  /\ UNCHANGED <<request_ctx, last>>
  /\ UNCHANGED engine_vars

RunGetResource ==
  /\ \E k \in DOMAIN kernels, unset \in UnsetReads :
       /\ Runnable(k, "get_resource")
       /\ LET h == FallbackGetResource(resources,
                                       request_ctx[kernels[k].req],
                                       ChainOf(kernels, kernels[k].in_ch),
                                       kernels[k].indices, unset)
          IN kernels' = [kernels EXCEPT
                           ![k].done = TRUE,
                           ![k].at = Executed(kernels) + 1,
                           ![k].status = h.status,
                           ![k].out_ch = h.out_ch,
                           ![k].results = h.results]
  /\ UNCHANGED <<request_ctx, resources, last>>
  /\ UNCHANGED engine_vars

RunCreateOp ==
  /\ \E k \in DOMAIN kernels :
       /\ Runnable(k, "createop")
       /\ LET ctx == request_ctx[kernels[k].req]
              op_key == kernels[k].op_key
              name == StripTfPrefix(GraphOp(op_key))
              base == [NoInvocation EXCEPT
                         !.entry = "createop", !.req = kernels[k].req,
                         !.has_chain = TRUE,
                         !.op_name = GraphOp(op_key), !.op_key = op_key]
              table == IF ctx.has_state THEN resources[ctx.runner_table]
                                        ELSE EmptyResource
              c == CreateOpOn(table, ctx.has_state, base, op_key,
                              GraphOp(op_key), HostCpu,
                              Len(KernelOf(name).input_types), "ok")
          IN /\ resources' = IF ctx.has_state
                               THEN [resources EXCEPT
                                       ![ctx.runner_table] = c.table]
                               ELSE resources
             /\ kernels' = [kernels EXCEPT
                              ![k].done = TRUE,
                              ![k].at = Executed(kernels) + 1,
                              ![k].status = c.inv.status,
                              ![k].out_ch =
                                IF StatusOk(c.inv.status)
                                  THEN InlineSlot(ReadyChain)
                                  ELSE InlineSlot(ErrorFuture(
                                         StringErrorValue(c.inv.status.msg)))]
  /\ UNCHANGED <<request_ctx, last>>
  /\ UNCHANGED engine_vars

ResourceNext ==
  \/ BuildRequest
  \/ SubmitKernel
  \/ RunSetResource
  \/ RunGetResource
  \/ RunCreateOp

ResourceSpec == ResourceInit /\ [][ResourceNext]_vars

\* ------------------------------------------------------------------------
\* Properties of the resource array
\* ------------------------------------------------------------------------
Succeeded(k) == kernels[k].done /\ StatusOk(kernels[k].status)

SetKernels == {k \in DOMAIN kernels : kernels[k].op = "set_resource"}
GetKernels == {k \in DOMAIN kernels : kernels[k].op = "get_resource"}

\* The resource array that the request of kernel k points at.
ArrayOf(k) == request_ctx[kernels[k].req].resource_array

\* The set_resource kernels that wrote index i of the array of kernel k
\* before kernel k ran, and the most recent of them.
SetsBefore(k, i) ==
  {p \in SetKernels :
     /\ Succeeded(p) /\ kernels[p].index = i
     /\ ArrayOf(p) = ArrayOf(k)
     /\ kernels[p].at < kernels[k].at}

LastSetBefore(k, i) ==
  CHOOSE p \in SetsBefore(k, i) :
    \A q \in SetsBefore(k, i) : kernels[q].at <= kernels[p].at

\* The value a get_resource returns for an index written by kernel p.
ValueSetBy(p) == ValueFuture(ImmutableTensorCreate(kernels[p].arg.tensor))

\* Each result of a get_resource is the value of the most recent
\* set_resource of its index.
LastWriteWins ==
  \A k \in GetKernels :
    Succeeded(k) =>
      \A j \in 1..Len(kernels[k].indices) :
        SetsBefore(k, kernels[k].indices[j]) # {}
          => kernels[k].results[j].fut =
               ValueSetBy(LastSetBefore(k, kernels[k].indices[j]))

\* Two get_resource of an index that was set, with no set_resource of the
\* index between them, return the same value.
RepeatedGetsAgree ==
  \A k1, k2 \in GetKernels :
    (Succeeded(k1) /\ Succeeded(k2) /\ ArrayOf(k1) = ArrayOf(k2)) =>
      \A j1 \in 1..Len(kernels[k1].indices),
         j2 \in 1..Len(kernels[k2].indices) :
        (/\ kernels[k1].indices[j1] = kernels[k2].indices[j2]
         /\ SetsBefore(k1, kernels[k1].indices[j1]) # {}
         /\ SetsBefore(k1, kernels[k1].indices[j1])
              = SetsBefore(k2, kernels[k2].indices[j2]))
          => kernels[k1].results[j1] = kernels[k2].results[j2]

\* A step in which a get_resource kernel runs.
GetResourceStep ==
  \E k \in GetKernels :
    ~kernels[k].done /\ k \in DOMAIN kernels' /\ kernels'[k].done

\* C11: on one resource array, a get_resource of index i returns the
\* tensor of the most recent set_resource of index i, repeated gets with no
\* set of i between them return the same value, and a get_resource leaves
\* every resource array as it was.
C11_LastWriteWins ==
  /\ [](LastWriteWins /\ RepeatedGetsAgree)
  /\ [][GetResourceStep => resources' = resources]_vars

\* Two set_resource wrote the same index of one array, one after the other,
\* and a get_resource that ran after both returned the second tensor.
C11_Witness ==
  \E p, q \in SetKernels, k \in GetKernels :
    /\ Succeeded(p) /\ Succeeded(q) /\ Succeeded(k)
    /\ ArrayOf(p) = ArrayOf(k) /\ ArrayOf(q) = ArrayOf(k)
    /\ kernels[p].index = kernels[q].index
    /\ kernels[p].at < kernels[q].at /\ kernels[q].at < kernels[k].at
    /\ \E j \in 1..Len(kernels[k].indices) :
         /\ kernels[k].indices[j] = kernels[q].index
         /\ kernels[k].results[j].fut = ValueSetBy(q)
         /\ kernels[k].results[j].fut # ValueSetBy(p)

\* ------------------------------------------------------------------------
\* Properties of error propagation
\* ------------------------------------------------------------------------
\* Every declared output and the completion token hold the error e.
AllHoldError(results, has_chain, chain, e) ==
  /\ \A i \in 1..Len(results) : results[i] = ErrorFuture(e)
  /\ has_chain => chain = ErrorFuture(e)

\* A handler of the dispatch engine returned a failure.
EngineFailure(inv) == inv.entry \in Handlers /\ ~StatusOk(inv.status)

\* A resource or createop kernel returned a failure.
KernelFailure(k) == kernels[k].done /\ ~StatusOk(kernels[k].status)

\* C16: for every class of failure a fallback kernel detects, every
\* declared output of the op and its completion token hold the one error;
\* this includes get_resource run without the per-request state.
C16_OneErrorEverywhere ==
  /\ EngineFailure(last) =>
       \E e \in {CallerFuture(s).error : s \in
                   {last.results[i] : i \in 1..Len(last.results)}
                     \cup {last.op_chain}} :
         AllHoldError([i \in 1..Len(last.results) |->
                         CallerFuture(last.results[i])],
                      last.has_chain, CallerFuture(last.op_chain), e)
  /\ \A id \in DOMAIN async_ops :
       AsyncKernelFailure(async_ops[id]) =>
         AllHoldError(async_ops[id].result_refs, TRUE, async_ops[id].chain,
                      async_ops[id].chain.error)
  /\ \A k \in DOMAIN kernels :
       KernelFailure(k) =>
         /\ Len(kernels[k].results) = Len(kernels[k].indices)
         /\ AllHoldError([j \in 1..Len(kernels[k].results) |->
                            kernels[k].results[j].fut],
                         TRUE, kernels[k].out_ch.fut,
                         kernels[k].out_ch.fut.error)
         /\ kernels[k].out_ch.fut.state = "error"

\* ------------------------------------------------------------------------
\* Properties of token ordering
\* ------------------------------------------------------------------------
\* The kernels whose out-chain reaches the in-chain of kernel k.
RECURSIVE TokenPredecessors(_)
TokenPredecessors(k) ==
  IF kernels[k].in_ch = 0 THEN {}
  ELSE {kernels[k].in_ch} \cup TokenPredecessors(kernels[k].in_ch)

\* The set_resource kernels among the token predecessors of kernel k that
\* write index i of the array kernel k reads.
ChainedSets(k, i) ==
  {p \in TokenPredecessors(k) \cap SetKernels :
     kernels[p].index = i /\ ArrayOf(p) = ArrayOf(k)}

MaxSharingKernels == 4

SubmitSharingKernel ==
  /\ Len(kernels) < MaxSharingKernels
  /\ \E r \in Requests, op \in KernelOps :
       /\ (op = "set_resource") => r = "r1"
       /\ (op = "get_resource") => r = "r2"
       /\ Submit(r, op,
                 IF op = "set_resource" THEN 1 ELSE 0,
                 IF op = "get_resource" THEN <<1>> ELSE <<>>,
                 IF op = "createop" THEN 1 ELSE 0,
                 0)

SharingNext ==
  \/ BuildRequest
  \/ SubmitSharingKernel
  \/ RunSetResource
  \/ RunGetResource
  \/ RunCreateOp

SharingSpec == ResourceInit /\ [][SharingNext]_vars

\* ------------------------------------------------------------------------
\* Properties of requests on one resource context
\* ------------------------------------------------------------------------
\* Two kernels belong to different requests set up on one resource context.
AcrossRequests(p, k) ==
  /\ kernels[p].req # kernels[k].req
  /\ request_ctx[kernels[p].req].has_state
  /\ request_ctx[kernels[k].req].has_state
  /\ request_ctx[kernels[p].req].resource_context
       = request_ctx[kernels[k].req].resource_context

\* The set_resource kernels of any request on the resource context of
\* kernel k that wrote index i before kernel k ran.
ContextSetsBefore(k, i) ==
  {p \in SetKernels :
     /\ Succeeded(p) /\ kernels[p].index = i
     /\ request_ctx[kernels[p].req].resource_context
          = request_ctx[kernels[k].req].resource_context
     /\ kernels[p].at < kernels[k].at}

\* The request of kernel k was given its runner table by the caller.
ExplicitTable(k) == request_ctx[kernels[k].req].runner_table = CallerTable

CreateKernels == {k \in DOMAIN kernels : kernels[k].op = "createop"}

\* C19: two requests set up on the same resource context share one
\* resource array and, unless a runner table was passed in, one runner
\* table: a get_resource of index i returns what the latest set_resource of
\* i by either request wrote, and a createop of key k after a successful
\* createop of k in the other request fails as a duplicate.
C19_RequestsShareResources ==
  /\ \A a, b \in Requests :
       (/\ request_ctx[a].has_state /\ request_ctx[b].has_state
        /\ request_ctx[a].resource_context = request_ctx[b].resource_context)
         => /\ request_ctx[a].resource_array = request_ctx[b].resource_array
            /\ (/\ request_ctx[a].runner_table # CallerTable
                /\ request_ctx[b].runner_table # CallerTable)
                 => request_ctx[a].runner_table = request_ctx[b].runner_table
  /\ \A k \in GetKernels :
       Succeeded(k) =>
         \A j \in 1..Len(kernels[k].indices) :
           \A p \in ContextSetsBefore(k, kernels[k].indices[j]) :
             (\A q \in ContextSetsBefore(k, kernels[k].indices[j]) :
                kernels[q].at <= kernels[p].at)
               => kernels[k].results[j].fut = ValueSetBy(p)
  /\ \A p, q \in CreateKernels :
       (/\ AcrossRequests(p, q)
        /\ ~ExplicitTable(p) /\ ~ExplicitTable(q)
        /\ kernels[p].op_key = kernels[q].op_key
        /\ Succeeded(p) /\ kernels[q].done
        /\ kernels[p].at < kernels[q].at)
         => AlreadyExists(kernels[q].status)

\* On one resource context, request r2 read the tensor that request r1 set
\* and its createop failed as a duplicate of the createop of request r1.
C19_Witness ==
  \E p \in SetKernels, k \in GetKernels, c, d \in CreateKernels :
    /\ AcrossRequests(p, k) /\ Succeeded(p) /\ Succeeded(k)
    /\ kernels[p].at < kernels[k].at
    /\ kernels[k].results[1].fut = ValueSetBy(p)
    /\ AcrossRequests(c, d) /\ ~ExplicitTable(c) /\ ~ExplicitTable(d)
    /\ Succeeded(c) /\ kernels[d].done
    /\ kernels[c].at < kernels[d].at
    /\ AlreadyExists(kernels[d].status)

\* ------------------------------------------------------------------------
\* Properties of the checks of the core-runtime entry point
\* ------------------------------------------------------------------------
StateFound(inv) == inv.req # NoRequestState
RunnerObtained(inv) == inv.runner # NoRunner
ArgumentsConvert(inv) ==
  \A i \in 1..Len(inv.args) : inv.args[i].kind = "dense_host"
ValidationPasses(inv) ==
  \/ CountMatches(inv) /\ DTypesMatch(inv)
  \/ inv.op_name = BatchFunctionFallback

\* The status of the first check that fails, in the order of the handler.
FirstFailedCheck(inv) ==
  IF ~StateFound(inv) THEN "NOT_FOUND"
  ELSE IF ~RunnerObtained(inv) THEN "RUNNER"
  ELSE IF ~ArgumentsConvert(inv) THEN "INTERNAL"
  ELSE IF ~ValidationPasses(inv) THEN "INVALID_ARGUMENT"
  ELSE "none"

\* The status a failed check reports.
ReportsCheck(inv, check) ==
  CASE check = "NOT_FOUND" ->
         inv.status = NotFound(RequestStateNotFoundMsg)
    [] check = "RUNNER" ->
         \E b \in BuildOutcomes \ {"ok"} :
           inv.status = OpKernelRunnerCreate(inv.op_name, HostCpu,
                                             Len(inv.args), b).status
    [] check = "INTERNAL" ->
         inv.status = Internal(<<"cannot convert tensor">>)
    [] check = "INVALID_ARGUMENT" ->
         inv.status = ValidateInputTypes(inv.op_name, ArgTensorsOf(inv),
                                         DeclaredTypes(inv))
    [] OTHER -> FALSE

\* C22: the core-runtime entry point invokes the runner only when the
\* request state was found, the runner was obtained, every argument
\* converted and validation passed or the op is the exempted one; otherwise
\* the error of the first failing check, in that order, is on every output
\* and the token and the runner is not invoked.
C22_ChecksBeforeRun ==
  last.entry = "dispatch" =>
    /\ last.kernel_ran <=> FirstFailedCheck(last) = "none"
    /\ ~last.kernel_ran =>
         /\ ReportsCheck(last, FirstFailedCheck(last))
         /\ Len(last.results) = KernelOf(last.op_name).num_outputs
         /\ AllHoldError([i \in 1..Len(last.results) |-> last.results[i].fut],
                         TRUE, last.op_chain.fut,
                         KernelErrorValue(last.op_name, last.status))

\* A dispatch with an argument that does not convert and an argument count
\* that validation would reject returned the conversion error without
\* invoking the runner.
C22_Witness ==
  /\ last.entry = "dispatch"
  /\ StateFound(last) /\ RunnerObtained(last)
  /\ ~ArgumentsConvert(last) /\ ~ValidationPasses(last)
  /\ ~last.kernel_ran
  /\ last.status.code = "INTERNAL"
  /\ last.op_chain.fut.state = "error"

\* ------------------------------------------------------------------------
\* Properties of the inputs of an asynchronous kernel
\* ------------------------------------------------------------------------
\* What the kernel of asynchronous invocation id reads as its inputs.
AsyncInputs(ops, sc, id) ==
  ContextInputs(ops[id].run_state, AsyncName(id), Memory(sc, ops))

\* The inputs are the tensors of the arguments of invocation id, in order.
OwnArguments(inputs, id) ==
  \A i \in 1..Len(inputs) :
    /\ inputs[i].role = "arg"
    /\ inputs[i].owner = id
    /\ inputs[i].idx = i

\* C23: an asynchronous kernel reads its inputs and parameters from the
\* AsyncState's own copies: its inputs are the arguments of its invocation
\* when the dispatch call returns, and they stay the same while the
\* dispatching thread clears its scratch state and reuses it for other ops.
C23_AsyncInputsStable ==
  /\ [](AsyncReturned(last) =>
          /\ last.kernel_inputs = ArgTensorsOf(last)
          /\ AsyncInputs(async_ops, scratch, serial) = ArgTensorsOf(last))
  /\ [](\A id \in DOMAIN async_ops :
          OwnArguments(AsyncInputs(async_ops, scratch, id), id))
  /\ [][\A id \in DOMAIN async_ops :
          AsyncInputs(async_ops', scratch', id)
            = AsyncInputs(async_ops, scratch, id)]_vars

\* The first invocation is an asynchronous kernel with an input that has
\* not completed, and the thread has since run a second op with arguments
\* on the same scratch state.
C23_Witness ==
  /\ serial = 2
  /\ 1 \in DOMAIN async_ops
  /\ async_ops[1].pc = "in_flight"
  /\ Len(AsyncInputs(async_ops, scratch, 1)) > 0
  /\ last.entry \in Handlers /\ last.kernel_ran /\ Len(last.args) > 0
  /\ last.thread = "t1"

\* ------------------------------------------------------------------------
\* Properties of a failed createop
\* ------------------------------------------------------------------------
\* A step in which a createop handler runs and returns.
CreateOpStep == last.entry = "none" /\ last'.entry = "createop"

\* The createop that returned failed for lack of the request state or
\* because the runner could not be constructed.
CreateOpFailedEarly(inv) ==
  /\ inv.entry = "createop"
  /\ ~StatusOk(inv.status)
  /\ ~AlreadyExists(inv.status)

\* C24: a createop that fails because the request state is missing or the
\* runner cannot be constructed leaves the runner table as it was, and a
\* createop with the request state and a successful construction succeeds
\* exactly when its key has no entry, so the key of a failed createop can
\* still be created later.
C24_FailedCreateOpLeavesTable ==
  [][CreateOpStep =>
       /\ CreateOpFailedEarly(last') => runner_table' = runner_table
       /\ (last'.req # NoRequestState /\ last'.runner # NoRunner)
            => (StatusOk(last'.status)
                  <=> last'.op_key \notin DOMAIN runner_table)
       /\ StatusOk(last'.status)
            => /\ last'.op_key \in DOMAIN runner_table'
               /\ runner_table'[last'.op_key] = last'.runner]_vars

\* A createop whose runner construction failed returned its error with the
\* op key still without an entry, in a table that has another entry.
C24_Witness ==
  /\ CreateOpFailedEarly(last)
  /\ last.req # NoRequestState /\ last.constructed
  /\ last.op_key \notin DOMAIN runner_table
  /\ runner_table # <<>>

\* ------------------------------------------------------------------------
\* Properties of the futures of an asynchronous invocation
\* ------------------------------------------------------------------------
\* The output futures and the completion token of an AsyncState.
FuturesOf(a) == a.result_refs \o <<a.chain>>

\* A future in one step: it stays as it is, or it is unavailable and
\* receives a value or an error.
ResolvedAtMostOnce(before, after) ==
  \/ after = before
  \/ /\ before.state = "unavailable"
     /\ after.state \in {"value", "error"}

\* The AsyncState has been completed by one invocation of done_callback.
CompletedOnce(a) ==
  /\ a.pc = "done"
  /\ Len(SelectSeq(a.log, LAMBDA e : e = "callback")) = 1

\* C25: with done_callback invoked at most once per AsyncState, every output
\* future and the completion token of an asynchronous invocation goes from
\* unavailable to a value or to an error in one step and never changes once
\* it is available.
C25_ResolvedAtMostOnce ==
  [][\A id \in DOMAIN async_ops :
       /\ id \in DOMAIN async_ops'
       /\ Len(FuturesOf(async_ops'[id])) = Len(FuturesOf(async_ops[id]))
       /\ \A i \in 1..Len(FuturesOf(async_ops[id])) :
            ResolvedAtMostOnce(FuturesOf(async_ops[id])[i],
                               FuturesOf(async_ops'[id])[i])]_vars

\* Two asynchronous invocations are complete, each after one done_callback:
\* the first with the kernel's error in every future, the second with a
\* value in every future.
C25_Witness ==
  /\ DOMAIN async_ops = {1, 2}
  /\ CompletedOnce(async_ops[1]) /\ CompletedOnce(async_ops[2])
  /\ \A i \in 1..Len(FuturesOf(async_ops[1])) :
       FuturesOf(async_ops[1])[i].state = "error"
  /\ \A i \in 1..Len(FuturesOf(async_ops[2])) :
       FuturesOf(async_ops[2])[i].state = "value"

\* ------------------------------------------------------------------------
\* Properties of the completion token of executeop.seq
\* ------------------------------------------------------------------------
\* An executeop.seq handler has returned.
SeqReturned(inv) == inv.entry = "executeop" /\ inv.has_chain

\* The events of the AsyncState up to the emplace of its chain: installed,
\* the kernel started, the callback ran and enqueued the task, and the task
\* emplaced every output and then the chain.
ChainEmplacedByTask(a) ==
  a.log = <<"install", "run_async", "callback", "enqueue">>
            \o [i \in 1..(a.num_outputs + 1) |-> "task_write"]

\* C27: the token an executeop.seq returns is never the token it was given:
\* it is a token of the handler's own (made by the synchronous path or by
\* the error emitter) or the chain of the invocation's AsyncState.  The
\* handler's own token holds a value only when a synchronous kernel ran and
\* Run returned OK, and the chain of an AsyncState holds a value only when
\* the callback was invoked with OK and the publish task has emplaced it.
C27_SeqTokenIsOwn ==
  /\ SeqReturned(last) =>
       /\ last.op_chain.av \in {"inline", "shared"}
       /\ last.op_chain.av = "shared" <=> (last.kernel_ran /\ last.is_async)
       /\ last.op_chain.av = "shared" => last.op_chain = SharedSlot(serial, 0)
       /\ (last.op_chain.av = "inline" /\ last.op_chain.fut.state = "value")
            <=> (last.kernel_ran /\ ~last.is_async /\ StatusOk(last.status))
       /\ last.op_chain.av = "inline" =>
            last.op_chain.fut.state \in {"value", "error"}
  /\ \A id \in DOMAIN async_ops :
       async_ops[id].chain.state = "value" =>
         /\ async_ops[id].pc = "done"
         /\ StatusOk(async_ops[id].status)
         /\ ChainEmplacedByTask(async_ops[id])

\* A synchronous executeop.seq returned its own available token after Run
\* returned OK, and the chain of the asynchronous invocation before it has
\* been emplaced by its publish task.
C27_Witness ==
  /\ SeqReturned(last)
  /\ last.kernel_ran /\ ~last.is_async /\ StatusOk(last.status)
  /\ last.op_chain = InlineSlot(ReadyChain)
  /\ serial = 2
  /\ 1 \in DOMAIN async_ops
  /\ async_ops[1].chain = ReadyChain
  /\ ChainEmplacedByTask(async_ops[1])

\* ------------------------------------------------------------------------
\* One worker thread serving two requests: handlers of either request, one
\* after the other on the same thread, with successful runner construction.
\* Request r2 has a custom device, request r1 has none.
\* ------------------------------------------------------------------------
RequestDispatch ==
  /\ last.entry = "none" /\ serial < MaxInv
  /\ \E t \in Workers, req \in Requests, op_name \in KernelNames,
        arguments \in DispatchArgLists(serial + 1),
        outcome \in AsyncOutcomes :
       /\ (outcome = Pending) => KernelOf(op_name).is_async
       /\ CoreRuntimeDispatch(t, req, op_name, arguments, "ok", outcome)
  /\ UNCHANGED resource_vars

RequestExecuteOp ==
  /\ last.entry = "none" /\ serial < MaxInv
  /\ \E t \in Workers, req \in Requests, op_key \in OpKeys, seq \in BOOLEAN,
        args \in ExecuteArgLists(serial + 1), outcome \in AsyncOutcomes :
       /\ (outcome = Pending)
            => TableGet(runner_table, op_key).op_kernel.is_async
       /\ KernelFallbackExecuteOp(t, req, op_key, seq, args, outcome)
  /\ UNCHANGED resource_vars

RequestsNext ==
  \/ RequestDispatch
  \/ RequestExecuteOp
  \/ TakeResults

RequestsSpec == Init /\ [][RequestsNext]_vars

\* The parameter struct the kernel of the handler that returned was given:
\* that of the AsyncState for an asynchronous kernel, that of the thread's
\* scratch state for a synchronous one.
KernelParams(inv) ==
  IF inv.is_async THEN async_ops[serial].run_state.params
                  ELSE scratch[inv.thread].params

\* The request-scoped fields of the params are those of the request state.
RequestFieldsOf(p, state, runner) ==
  /\ p.device = (IF state.custom_device # "null" THEN state.custom_device
                                                 ELSE runner.device)
  /\ p.step_container = state.step_container
  /\ p.runner = state.runner
  /\ p.collective_executor = state.collective_executor
  /\ p.rendezvous = state.rendezvous
  /\ p.session_metadata = state.session_metadata
  /\ p.cancellation_manager = state.cancellation_manager

\* The kernel fields of the params are those of the runner.
KernelFieldsOf(p, runner) ==
  /\ p.op_kernel = runner.op_kernel
  /\ p.resource_manager = runner.device
  /\ p.input_alloc_attrs = runner.op_kernel.name
  /\ p.output_attr_array = runner.op_kernel.name
  /\ p.function_library = runner.device

\* C28: whatever ran before on the thread, the parameter struct a kernel is
\* given carries the request-scoped fields of its own request (the custom
\* device when the request has one, the runner's device otherwise) and the
\* kernel fields of its own runner.
C28_ParamsOfOwnRequest ==
  last.kernel_ran =>
    /\ RequestFieldsOf(KernelParams(last), RequestState(last.req),
                       last.runner)
    /\ KernelFieldsOf(KernelParams(last), last.runner)

\* The first invocation on the thread ran an asynchronous kernel for
\* request r2 on its custom device; the second ran a synchronous kernel of
\* another runner for request r1 on the runner's device.
C28_Witness ==
  /\ serial = 2
  /\ 1 \in DOMAIN async_ops
  /\ async_ops[1].run_state.params.rendezvous = "r2"
  /\ async_ops[1].run_state.params.device = "custom_device_r2"
  /\ last.kernel_ran /\ ~last.is_async /\ last.req = "r1"
  /\ last.runner.op_kernel # async_ops[1].run_state.params.op_kernel
  /\ scratch[last.thread].params.device = HostCpu
  /\ scratch[last.thread].params.rendezvous = "r1"

\* ------------------------------------------------------------------------
\* Progress of asynchronous invocations.  The handler that returned hands
\* its results to its caller; the kernel of every AsyncState in flight
\* eventually invokes done_callback; a callback that was entered runs to its
\* end; the work queue eventually runs every step of a task it was given.
\* ------------------------------------------------------------------------
KernelCallsDone(id) ==
  /\ \E status \in KernelOutcomes : DoneCallback(id, status)
  /\ UNCHANGED resource_vars

CallbackContinues(id) == CallbackSetError(id) /\ UNCHANGED resource_vars

TaskRuns(id) == PublishTask(id) /\ UNCHANGED resource_vars

Fairness ==
  /\ WF_vars(TakeResults)
  /\ \A id \in 1..MaxInv :
       /\ WF_vars(KernelCallsDone(id))
       /\ WF_vars(CallbackContinues(id))
       /\ WF_vars(TaskRuns(id))

LiveSpec == Init /\ [][Next]_vars /\ Fairness

\* Every output future and the chain of the AsyncState are available.
AllAvailable(a) ==
  \A i \in 1..Len(FuturesOf(a)) :
    FuturesOf(a)[i].state \in {"value", "error"}

\* C26: when every kernel in flight eventually invokes done_callback and
\* the work queue eventually runs every task enqueued on it, every output
\* future and the completion token of every asynchronous invocation are
\* eventually available, as values or as the error.
C26_FuturesEventuallyAvailable ==
  \A id \in 1..MaxInv :
    (id \in DOMAIN async_ops)
      ~> (id \in DOMAIN async_ops /\ AllAvailable(async_ops[id]))

\* Two asynchronous invocations that returned with their kernels in flight
\* are both complete, the second with its two outputs and its chain
\* emplaced by the publish task.
C26_Witness ==
  /\ DOMAIN async_ops = {1, 2}
  /\ AllAvailable(async_ops[1]) /\ AllAvailable(async_ops[2])
  /\ async_ops[2].num_outputs = 2
  /\ ChainEmplacedByTask(async_ops[2])
  /\ last.entry = "none"

\* ------------------------------------------------------------------------
\* Lifetime of the AsyncState.  The runner owns the done_callback closure it
\* was given and destroys it at some point after the callback returned; the
\* AsyncState is destroyed when no closure holds a pointer to it any more.
\* ------------------------------------------------------------------------
ReleaseDoneCallback(id) ==
  /\ last.entry = "none"
  /\ id \in DOMAIN async_ops
  /\ async_ops[id].pc \notin {"in_flight", "set_error"}
  /\ "callback" \in async_ops[id].refs
  /\ async_ops' = [async_ops EXCEPT ![id].refs = @ \ {"callback"}]
  /\ UNCHANGED <<scratch, runner_table, runner_cache, serial, last, lookup>>

AsyncRelease ==
  /\ \E id \in DOMAIN async_ops : ReleaseDoneCallback(id)
  /\ UNCHANGED resource_vars

LifetimeNext ==
  \/ Dispatch
  \/ ExecuteOp
  \/ AsyncDone
  \/ AsyncSetError
  \/ AsyncPublish
  \/ AsyncRelease
  \/ TakeResults

LifetimeSpec == Init /\ [][LifetimeNext]_vars

Destroyed(a) == a.refs = {}

\* The event e is in the log of the AsyncState.
Logged(a, e) == \E i \in 1..Len(a.log) : a.log[i] = e

\* The done_callback has been invoked and found a failed status.
CallbackFailed(a) == Logged(a, "callback") /\ ~StatusOk(a.status)

\* The publish task has emplaced the chain and returned.
TaskFinished(a) ==
  /\ Logged(a, "enqueue")
  /\ a.pc = "done"

\* The AsyncState is alive while the callback is still to run or running and
\* while the publish task is still to run or running, and it is not
\* destroyed before every output and the chain are available.
AliveWhileAccessed(a) ==
  /\ a.pc \in {"in_flight", "set_error"} => "callback" \in a.refs
  /\ a.pc \in {"enqueued", "publishing"} => "task" \in a.refs
  /\ Destroyed(a) => AllAvailable(a)

\* On failure the callback's closure holds the only reference.
CallbackHoldsLastOnFailure(a) == CallbackFailed(a) => a.refs \subseteq {"callback"}

\* The lifetime that the code does give the AsyncState: alive while
\* accessed, released by the callback's closure alone on failure, and on
\* success alive until the task has finished and the runner has released
\* the callback's closure.
AsyncStateLifetime ==
  \A id \in DOMAIN async_ops :
    /\ AliveWhileAccessed(async_ops[id])
    /\ CallbackHoldsLastOnFailure(async_ops[id])
    /\ Destroyed(async_ops[id]) =>
         (CallbackFailed(async_ops[id]) \/ TaskFinished(async_ops[id]))

SyncRunBegins(t, req, op_key, seq, args) ==
  LET sn == serial + 1
      f == ExecuteOpFrame(t, req, op_key, seq, args)
  IN
  /\ last.entry = "none"
  /\ serial < MaxInv
  /\ op_key \in DOMAIN runner_table
  /\ ~f.kernel_runner.op_kernel.is_async
  /\ serial' = sn
  /\ scratch' = [scratch EXCEPT
                   ![t] = ExecuteOpSetUp(@, sn, t, req, f.kernel_runner, args)]
  /\ last' = [f.base EXCEPT
                !.runner = f.kernel_runner,
                !.copies = ExecuteCopies(scratch[t].input_tf_tensors, args),
                !.op_chain = f.op_chain,
                !.results = f.results,
                !.in_run = TRUE]
  /\ UNCHANGED <<runner_table, runner_cache, async_ops, lookup>>

\* The handler of the op dispatched from inside Run, from entry to return.
SyncRunNested(op_key, args, outcome) ==
  LET t == last.thread
      sn == serial + 1
      f == ExecuteOpFrame(t, last.req, op_key, FALSE, args)
      rs2 == ExecuteOpSetUp(scratch[t], sn, t, last.req, f.kernel_runner, args)
      mem == (ArgsName(sn) :> [i \in 1..Len(args) |-> args[i].tensor])
               @@ (t :> rs2.input_tf_tensors)
               @@ Memory(scratch, async_ops)
      run == RunKernel(sn, t, rs2, f.kernel_runner, FALSE, f.op_chain,
                       f.results, outcome, mem)
  IN
  /\ last.in_run
  /\ serial < MaxInv
  /\ op_key \in DOMAIN runner_table
  /\ serial' = sn
  /\ scratch' = [scratch EXCEPT ![t] = CleanUpInputs(rs2)]
  /\ async_ops' = AddAsync(async_ops, sn, run.async_state)
  /\ last' = [last EXCEPT !.nested = @ + 1]
  /\ UNCHANGED <<runner_table, runner_cache, lookup>>

\* Run returns with `status`: what the kernel's context reads is what the
\* thread_local state holds by then; the handler publishes and cleans up.
SyncRunReturns(status) ==
  LET t == last.thread
      sn == serial - last.nested
      mem == (ArgsName(sn) :> [i \in 1..Len(last.args) |-> last.args[i].tensor])
               @@ Memory(scratch, async_ops)
      r == KernelFallbackExecuteCompatSyncInternal(
             sn, last.runner, last.has_chain, last.op_chain, last.results,
             status)
  IN
  /\ last.in_run
  /\ last' = [last EXCEPT
                !.in_run = FALSE,
                !.kernel_ran = TRUE,
                !.kernel_inputs = ContextInputs(scratch[t], t, mem),
                !.status = status,
                !.op_chain = r.op_chain,
                !.results = r.results]
  /\ scratch' = [scratch EXCEPT ![t] = CleanUpInputs(@)]
  /\ UNCHANGED <<runner_table, runner_cache, async_ops, serial, lookup>>

RunBegin ==
  /\ \E t \in Workers, op_key \in OpKeys, seq \in BOOLEAN,
        args \in ExecuteArgLists(serial + 1) :
       SyncRunBegins(t, "r1", op_key, seq, args)
  /\ UNCHANGED resource_vars

RunNested ==
  /\ \E op_key \in OpKeys, args \in ExecuteArgLists(serial + 1),
        outcome \in AsyncOutcomes :
       /\ (outcome = Pending)
            => TableGet(runner_table, op_key).op_kernel.is_async
       /\ SyncRunNested(op_key, args, outcome)
  /\ UNCHANGED resource_vars

RunReturn ==
  /\ \E status \in KernelOutcomes : SyncRunReturns(status)
  /\ UNCHANGED resource_vars

NestedNext ==
  \/ RunBegin
  \/ RunNested
  \/ RunReturn
  \/ TakeResults

NestedSpec == Init /\ [][NestedNext]_vars

\* C29: from the step in which a synchronous kernel's Run begins to the
\* step in which it returns, no step changes the input handle sequence or
\* the parameter struct of the thread_local state of the kernel's thread,
\* whatever op is dispatched meanwhile, on the same thread included.
C29_ScratchStableDuringRun ==
  [][(last.in_run /\ last'.in_run) =>
       /\ scratch'[last.thread].input_tf_tensor_values
            = scratch[last.thread].input_tf_tensor_values
       /\ scratch'[last.thread].params = scratch[last.thread].params]_vars

====
